---- MODULE Spec2Model ----
(***************************************************************************)
(* CompleteDiscordQuest: the quest-completion orchestrator                 *)
(* (src/types/spoofing.ts), the stream-on-desktop and play-on-desktop      *)
(* handlers (src/unnamed/part_000, src/unnamed/part_001) and the captcha   *)
(* token cache and bypass engine (src/unnamed/part_000).                   *)
(*                                                                         *)
(* SpecCache  : token cache, sweep timer and bypassCaptcha.                *)
(* SpecQuest  : polling passes, handlers, shutdown/restart and claims.     *)
(***************************************************************************)
EXTENDS Integers, Sequences, FiniteSets, Bags, TLC

\* ------------------------------------------------------------------ bounds
\* Number of clock ticks the model lets pass.
MaxTicks == 4
\* Number of clock ticks the bypass engine's model lets pass.
MaxBypassTicks == 2
\* Number of bypassCaptcha calls that may be in flight together.
MaxCalls == 1
\* Number of handler activations that may be subscribed or fetching at once.
MaxHandlers == 2
\* acceptQuest activations in flight at once
MaxAccepts == 2

\* ------------------------------------------------------- program constants
CACHE_LIFETIME_MS == 120000
CACHE_CLEANUP_INTERVAL_MS == 60000

\* SpecCache: the clock advances in steps of one cleanup interval.
TickMs == CACHE_CLEANUP_INTERVAL_MS
\* SpecBypass: the clock advances in steps of one token lifetime.
BypassTickMs == CACHE_LIFETIME_MS

\* ------------------------------------------------------------------ values
Null == "null"
SiteKeys == {"k1", "k2"}
Tokens == {"t1", "t2"}
\* An API key setting: unset/empty, whitespace only, or a usable key.
ApiKeyValues == {"", " ", "key"}
Providers == {"NopeCHA", "CapSolver", "2Captcha"}
\* servicePreference values; Null stands for an omitted argument.
Preferences == {Null, "auto", "nopecha", "2captcha", "capsolver", "fallback"}
\* The key settings the model draws: a whitespace-only key for the first provider only.
ApiKeySets == [nopecha : ApiKeyValues, capsolver : {"", "key"}, twoCaptcha : {"", "key"}]
NoApiKeys == [nopecha |-> "", capsolver |-> "", twoCaptcha |-> ""]

VARIABLES
    now,              \* Date.now(), in ms
    tokenCache,       \* Map sitekey -> TokenCacheEntry
    cleanupInterval,  \* the timer handle held by the module, or NoTimer
    timers,           \* the interval timers that are active (setInterval handles)
    cacheLog,         \* SpecCache: the cache operation of the last step and what it returned
    lastStore,        \* SpecCache: per sitekey, the last cacheToken call since the last clear
    calls,            \* bypassCaptcha calls in flight (a bag: two calls may be alike)
    servicePreference, \* settings.store.captchaSolvingService
    apiKeys,          \* settings.store.nopchaApiKey, twoCaptchaApiKey, capsolverApiKey
    result,           \* the CaptchaBypassResult the last step returned (NoResult: none)
    \* ---- SpecQuest
    phase,            \* QuestsStore: per quest, which of enrolledAt/completedAt/claimedAt are set
    expired,          \* QuestsStore: per quest, config.expiresAt has passed
    listening,        \* updateQuests is registered as QuestsStore change listener
    completableQuests, \* the module variable left by the last updateQuests
    completingQuest,  \* Map quest id -> boolean (true: actively completing, false: stop requested)
    fakeGames,        \* Map quest id -> fake game
    fakeApplications, \* Map quest id -> fake application
    handlers,         \* the handler activations that are subscribed or fetching (a bag)
    completed,        \* the onQuestComplete invocations of the last step, by quest (a bag)
    claimingQuest,    \* Set of quest ids with a claim in flight
    claims,           \* claimQuestReward activations past their guards (a bag)
    deduped,          \* the quests whose claimQuestReward call in the last step returned at the claimingQuest guard
    autoClaimRewards, \* settings.store.autoClaimRewards
    acceptQuestsAutomatically, \* settings.store.acceptQuestsAutomatically
    accepted,         \* the quests the last step called QuestApplyAction(ACCEPT_QUEST) for
    autoCaptchaSolving, \* settings.store.autoCaptchaSolving
    captchaBypassEnabled, \* the RestAPI wrappers are installed
    originalRestAPI,  \* the saved transport functions (<<>>: null)
    RestAPI,          \* the functions now held by RestAPI.post and RestAPI.get
    captchaMonitor,   \* the observer start() kept (NoObserver: null)
    observers,        \* the MutationObservers that are observing the document
    \* ---- SpecDetect
    response,         \* the object handed to detectCaptchaChallenge (<<>>: null)
    detection,        \* whether detectCaptchaChallenge was called, and what it returned
    \* ---- SpecClaim, SpecAccept
    claimLog,         \* what the claimQuestReward that ended in the last step logged
    accepts,          \* acceptQuest activations awaiting a remote call or the bypass (a bag)
    \* ---- SpecPoll, SpecReward, SpecCodes
    poll,             \* one submit-then-poll solver call: its position, polls made and result
    categories,       \* whether getQuestRewardCategories was called, and what it returned
    redeemCodes,      \* settings.store.redeemCodes, as the list of its lines
    \* ---- the store's quest configuration and the settings the passes read
    taskKind,         \* quest id -> the first recognized task of its taskConfig
    isApp,            \* typeof DiscordNative !== "undefined"
    rewards,          \* quest id -> config.rewardsConfig.rewards
    preferredRewardType, \* settings.store.preferredRewardType
    pids              \* quest id -> the pid Math.random gives completeQuest

settingsVars == <<servicePreference, apiKeys>>
questVars == <<phase, expired, listening, completableQuests, completingQuest, fakeGames,
               fakeApplications, handlers, completed, claimingQuest, claims, deduped, autoClaimRewards,
               acceptQuestsAutomatically, accepted>>
restVars == <<captchaBypassEnabled, originalRestAPI, RestAPI, captchaMonitor, observers>>
lifeVars == <<restVars, autoCaptchaSolving>>
detectVars == <<response, detection>>
remoteVars == <<claimLog, accepts>>
pureVars == <<poll, categories, redeemCodes>>
envVars == <<taskKind, isApp, rewards, preferredRewardType, pids>>
auxVars == <<detectVars, remoteVars, pureVars, envVars>>
cacheVars == <<now, tokenCache, cleanupInterval, timers, cacheLog, lastStore, calls, result,
              servicePreference, apiKeys>>

\* ------------------------------------------------------------ token cache
Remove(map, k) == [x \in DOMAIN map \ {k} |-> map[x]]

\* Mutant: the expiry check dropped.
getCachedTokenValue_NoExpiry(cache, sitekey, t) ==
    IF sitekey \notin DOMAIN cache THEN Null ELSE cache[sitekey].token

\* Mutant: the cache is never consulted.
getCachedTokenValue_Miss(cache, sitekey, t) == Null

\* getCachedToken: the value returned
getCachedTokenValue(cache, sitekey, t) ==
    IF sitekey \notin DOMAIN cache THEN Null
    ELSE IF t > cache[sitekey].expiresAt THEN Null
    ELSE cache[sitekey].token

\* getCachedToken: the cache it leaves (an expired entry is deleted)
getCachedTokenCache(cache, sitekey, t) ==
    IF sitekey \in DOMAIN cache /\ t > cache[sitekey].expiresAt
    THEN Remove(cache, sitekey)
    ELSE cache

TokenCacheEntry(sitekey, token, t) ==
    [token |-> token, sitekey |-> sitekey, timestamp |-> t,
     expiresAt |-> t + CACHE_LIFETIME_MS]

cacheToken(cache, sitekey, token, t) ==
    [x \in DOMAIN cache \cup {sitekey} |->
        IF x = sitekey THEN TokenCacheEntry(sitekey, token, t) ELSE cache[x]]

\* Mutant: the sweep compares against the creation time.
cleanupExpiredTokens_ByTimestamp(cache, t) ==
    [x \in {k \in DOMAIN cache : ~(t > cache[k].timestamp)} |-> cache[x]]

cleanupExpiredTokens(cache, t) ==
    [x \in {k \in DOMAIN cache : ~(t > cache[k].expiresAt)} |-> cache[x]]

\* ------------------------------------------------------------ sweep timer
\* cleanupInterval holding no handle (null)
NoTimer == 0
\* setInterval: a handle not in use
NewTimer(active) == CHOOSE n \in 1..(Cardinality(active) + 1) : n \notin active

\* Mutant: the "already running" guard dropped.
startTokenCacheCleanup_NoGuard ==
    /\ cleanupInterval' = NewTimer(timers)
    /\ timers' = timers \cup {NewTimer(timers)}

startTokenCacheCleanup ==
    /\ IF cleanupInterval # NoTimer
       THEN UNCHANGED <<cleanupInterval, timers>>
       ELSE /\ cleanupInterval' = NewTimer(timers)
            /\ timers' = timers \cup {NewTimer(timers)}

stopTokenCacheCleanup ==
    /\ IF cleanupInterval # NoTimer
       THEN /\ timers' = timers \ {cleanupInterval}
            /\ cleanupInterval' = NoTimer
       ELSE UNCHANGED <<cleanupInterval, timers>>

\* clearTokenCache: the cache it leaves
clearTokenCache(cache) == [x \in {} |-> cache[x]]

\* A cache operation as logged: getCachedToken's key and the value it returned,
\* the sitekeys a sweep removed, whether a start/stop found the timer running.
CacheOp(op, key, value, removed) == [op |-> op, key |-> key, value |-> value, removed |-> removed]
NoCacheOp == CacheOp("none", Null, Null, {})
Running == IF cleanupInterval # NoTimer THEN "running" ELSE "stopped"
NoStore == [token |-> Null, at |-> 0]

\* ----------------------------------------------------------- bypassCaptcha
Truthy(str) == str # "" /\ str # Null
\* apiKey.trim() is empty
Blank(str) == str \in {"", " ", Null}

Service(name, key) == [name |-> name, key |-> key]

\* Mutant: 2Captcha is tried before CapSolver.
BuildServices_TwoCaptchaFirst(pref, keys) ==
    IF pref = "auto" \/ ~Truthy(pref)
    THEN (IF Truthy(keys.nopecha) THEN <<Service("NopeCHA", keys.nopecha)>> ELSE <<>>)
         \o (IF Truthy(keys.twoCaptcha) THEN <<Service("2Captcha", keys.twoCaptcha)>> ELSE <<>>)
         \o (IF Truthy(keys.capsolver) THEN <<Service("CapSolver", keys.capsolver)>> ELSE <<>>)
    ELSE IF pref = "nopecha" /\ Truthy(keys.nopecha)
         THEN <<Service("NopeCHA", keys.nopecha)>>
    ELSE IF pref = "2captcha" /\ Truthy(keys.twoCaptcha)
         THEN <<Service("2Captcha", keys.twoCaptcha)>>
    ELSE IF pref = "capsolver" /\ Truthy(keys.capsolver)
         THEN <<Service("CapSolver", keys.capsolver)>>
    ELSE <<>>

\* The candidate list bypassCaptcha builds from the preference and the keys.
BuildServices(pref, keys) ==
    IF pref = "auto" \/ ~Truthy(pref)
    THEN (IF Truthy(keys.nopecha) THEN <<Service("NopeCHA", keys.nopecha)>> ELSE <<>>)
         \o (IF Truthy(keys.capsolver) THEN <<Service("CapSolver", keys.capsolver)>> ELSE <<>>)
         \o (IF Truthy(keys.twoCaptcha) THEN <<Service("2Captcha", keys.twoCaptcha)>> ELSE <<>>)
    ELSE IF pref = "nopecha" /\ Truthy(keys.nopecha)
         THEN <<Service("NopeCHA", keys.nopecha)>>
    ELSE IF pref = "2captcha" /\ Truthy(keys.twoCaptcha)
         THEN <<Service("2Captcha", keys.twoCaptcha)>>
    ELSE IF pref = "capsolver" /\ Truthy(keys.capsolver)
         THEN <<Service("CapSolver", keys.capsolver)>>
    ELSE <<>>

Call(stage, sitekey, pref, services, idx, caller) ==
    [stage |-> stage, sitekey |-> sitekey, pref |-> pref, services |-> services,
     idx |-> idx, caller |-> caller]
InFlight == BagToSet(calls)
Begin(c) == calls (+) SetToBag({c})
End(c) == calls (-) SetToBag({c})

Names(services) == [i \in DOMAIN services |-> services[i].name]
\* The providers among services[1..n] that were given a usable key: those reach the network.
RECURSIVE Networked(_, _)
Networked(services, n) ==
    IF n = 0 THEN <<>>
    ELSE Networked(services, n - 1)
         \o (IF Blank(services[n].key) THEN <<>> ELSE <<services[n].name>>)

\* A CaptchaBypassResult, with what the call did before returning it.
BypassResult(success, token, error, sitekey, caller, services, n, fallback, hit) ==
    [success |-> success, token |-> token, error |-> error, sitekey |-> sitekey,
     caller |-> caller, invoked |-> SubSeq(Names(services), 1, n),
     network |-> Networked(services, n), fallback |-> fallback, cacheHit |-> hit]

NoResult == BypassResult(FALSE, Null, "", Null, Null, <<>>, 0, FALSE, FALSE)

\* Mutant: the failure carries no reason.
AllFailed_Empty == ""

AllFailed == "All captcha solving methods failed"

\* bypassCaptcha up to its first await: the cache lookup, the sitekey check and
\* the candidate list; it returns at once on a cache hit, without a sitekey, or
\* when there is nothing to try.
bypassCaptcha(sitekey, pref, keys, caller) ==
    LET cached == IF Truthy(sitekey) THEN getCachedTokenValue(tokenCache, sitekey, now) ELSE Null
        services == BuildServices(pref, keys)
    IN  /\ tokenCache' = IF Truthy(sitekey)
                         THEN getCachedTokenCache(tokenCache, sitekey, now)
                         ELSE tokenCache
        /\ IF Truthy(cached)
           THEN /\ result' = BypassResult(TRUE, cached, Null, sitekey, caller, <<>>, 0, FALSE, TRUE)
                /\ UNCHANGED calls
           ELSE IF ~Truthy(sitekey)
           THEN /\ result' = BypassResult(FALSE, Null, "No sitekey in challenge", sitekey,
                                          caller, <<>>, 0, FALSE, FALSE)
                /\ UNCHANGED calls
           ELSE IF services # <<>>
           THEN /\ BagCardinality(calls) < MaxCalls
                /\ calls' = Begin(Call("provider", sitekey, pref, services, 1, caller))
                /\ result' = NoResult
           ELSE IF pref # "fallback"
           THEN /\ BagCardinality(calls) < MaxCalls
                /\ calls' = Begin(Call("fallback", sitekey, pref, services, 0, caller))
                /\ result' = NoResult
           ELSE /\ result' = BypassResult(FALSE, Null, AllFailed, sitekey, caller,
                                          <<>>, 0, FALSE, FALSE)
                /\ UNCHANGED calls

\* The awaited solver of services[idx] returns: token is the token it reports,
\* Null for a failure. A solver given a blank key fails without a request.
providerReturns(c, token) ==
    LET ok == Truthy(token)
    IN  /\ c.stage = "provider"
        /\ Blank(c.services[c.idx].key) => ~ok
        /\ IF ok
           THEN /\ tokenCache' = cacheToken(tokenCache, c.sitekey, token, now)
                /\ result' = BypassResult(TRUE, token, Null, c.sitekey, c.caller,
                                          c.services, c.idx, FALSE, FALSE)
                /\ calls' = End(c)
           ELSE /\ UNCHANGED tokenCache
                /\ IF c.idx < Len(c.services)
                   THEN /\ calls' = End(c) (+) SetToBag({[c EXCEPT !.idx = c.idx + 1]})
                        /\ result' = NoResult
                   ELSE IF c.pref # "fallback"
                   THEN /\ calls' = End(c) (+) SetToBag({[c EXCEPT !.stage = "fallback"]})
                        /\ result' = NoResult
                   ELSE /\ result' = BypassResult(FALSE, Null, AllFailed, c.sitekey, c.caller,
                                                  c.services, c.idx, FALSE, FALSE)
                        /\ calls' = End(c)

\* Mutant: the token the fallback found is returned without being cached.
fallbackReturns_NoCache(c, token) ==
    LET ok == Truthy(token)
    IN  /\ c.stage = "fallback"
        /\ UNCHANGED tokenCache
        /\ result' = IF ok
                     THEN BypassResult(TRUE, token, Null, c.sitekey, c.caller,
                                       c.services, c.idx, TRUE, FALSE)
                     ELSE BypassResult(FALSE, Null, AllFailed, c.sitekey, c.caller,
                                       c.services, c.idx, TRUE, FALSE)
        /\ calls' = End(c)

\* autoSolveHCaptchaCheckbox returns: token is the h-captcha-response value it
\* found, Null when it found none.
fallbackReturns(c, token) ==
    LET ok == Truthy(token)
    IN  /\ c.stage = "fallback"
        /\ IF ok
           THEN /\ tokenCache' = cacheToken(tokenCache, c.sitekey, token, now)
                /\ result' = BypassResult(TRUE, token, Null, c.sitekey, c.caller,
                                          c.services, c.idx, TRUE, FALSE)
           ELSE /\ UNCHANGED tokenCache
                /\ result' = BypassResult(FALSE, Null, AllFailed, c.sitekey, c.caller,
                                          c.services, c.idx, TRUE, FALSE)
        /\ calls' = End(c)

\* --------------------------------------------------- detectCaptchaChallenge
\* A property value: Null for an absent property (or one holding null), "" for
\* an empty string; every other value is truthy (an empty captcha_key array
\* included).
Falsy(v) == v \in {Null, ""}
\* The challenge fields of one object level.
Level(key, sitekey, service, rqdata, rqtoken) ==
    [captcha_key |-> key, captcha_sitekey |-> sitekey, captcha_service |-> service,
     captcha_rqdata |-> rqdata, captcha_rqtoken |-> rqtoken]
\* An object: its own challenge fields, an unrelated field, and its body
\* property (<<>>: absent, else the one object it holds).
Object(level, other, body) == [fields |-> level, message |-> other, body |-> body]

CaptchaChallenge(l) ==
    Level(l.captcha_key, l.captcha_sitekey,
          IF Falsy(l.captcha_service) THEN "hcaptcha" ELSE l.captcha_service,
          l.captcha_rqdata, l.captcha_rqtoken)

\* Mutant: the body is inspected before the top level.
detectCaptchaChallenge_BodyFirst(resp) ==
    IF resp = <<>> THEN <<>>
    ELSE LET r == resp[1]
         IN  IF r.body # <<>> /\ (~Falsy(r.body[1].fields.captcha_key)
                                    \/ ~Falsy(r.body[1].fields.captcha_sitekey))
             THEN <<CaptchaChallenge(r.body[1].fields)>>
             ELSE IF ~Falsy(r.fields.captcha_key) \/ ~Falsy(r.fields.captcha_sitekey)
             THEN <<CaptchaChallenge(r.fields)>>
             ELSE <<>>

\* detectCaptchaChallenge: <<>> for null, else the descriptor it returns
detectCaptchaChallenge(resp) ==
    IF resp = <<>> THEN <<>>
    ELSE LET r == resp[1]
         IN  IF ~Falsy(r.fields.captcha_key) \/ ~Falsy(r.fields.captcha_sitekey)
             THEN <<CaptchaChallenge(r.fields)>>
             ELSE IF r.body # <<>> /\ (~Falsy(r.body[1].fields.captcha_key)
                                         \/ ~Falsy(r.body[1].fields.captcha_sitekey))
             THEN <<CaptchaChallenge(r.body[1].fields)>>
             ELSE <<>>

\* The objects the model hands to detectCaptchaChallenge. Values name the level
\* they sit at: "a.." top level, "b.." under body, "c.." under body.body.
NoLevel == Level(Null, Null, Null, Null, Null)
TopLevels ==
    {Level(k, sk, sv, rq, rq) :
        k \in {Null, "", "a-key"}, sk \in {Null, "", "a-site"},
        sv \in {Null, "", "a-svc"}, rq \in {Null, "a-rq"}}
BodyLevels ==
    {Level(k, sk, sv, rq, rq) :
        k \in {Null, "", "b-key"}, sk \in {Null, "", "b-site"},
        sv \in {Null, "b-svc"}, rq \in {Null, "b-rq"}}
DeepObjects == {<<>>, <<Object(Level("c-key", "c-site", "c-svc", Null, Null), Null, <<>>)>>}
Bodies == {<<>>} \cup {<<Object(l, Null, d)>> : l \in BodyLevels, d \in DeepObjects}
Responses ==
    {<<>>} \cup {<<Object(l, o, b)>> : l \in TopLevels, o \in {Null, "msg"}, b \in Bodies}

NotCalled == [called |-> FALSE, out |-> <<>>]
\* No response is under inspection.
\* claimQuestReward's closing log line: "Claimed reward" or "Failed to claim reward".
Report(q, claimed) == [quest |-> q, claimed |-> claimed]
NoReport == Report(Null, FALSE)

\* A solver's return value
SolverResult(success, token, error) == [success |-> success, token |-> token, error |-> error]
\* No solver call was made.
PollIdle == [provider |-> Null, pc |-> "idle", polls |-> 0, result |-> <<>>]
\* getQuestRewardCategories was not called.
NotClassified == [called |-> FALSE, out |-> {}]

AuxIdle ==
    /\ response = <<>>
    /\ detection = NotCalled
    /\ claimLog = NoReport
    /\ accepts = EmptyBag
    /\ poll = PollIdle
    /\ categories = NotClassified
    /\ redeemCodes = <<>>

\* ------------------------------------------------------------------ quests
vars == <<cacheVars, questVars, lifeVars, auxVars>>

Quests == {"q1", "q2"}
\* completeQuest: Math.floor(Math.random() * 30000) + 1000 is at least this
MinPid == 1000
\* QuestsStore.quests.values(): the order in which a pass visits the quests
QuestOrder == <<"q1", "q2">>
\* The first recognized task of the quest's taskConfig.
TaskName(q) == taskKind[q]
\* quest.config.configVersion
ConfigVersion(q) == IF q = "q1" THEN 2 ELSE 1
\* taskConfig.tasks[taskName].target
SecondsNeeded == 2
\* Progress values an event may carry, in half seconds (the payload is a float).
ProgressValues == {2 * SecondsNeeded - 1, 2 * SecondsNeeded, 2 * SecondsNeeded + 1}

\* ---- reward categories
\* Text is a sequence of characters, so that case folding and substring search
\* are computed; an absent name is the empty text (messages?.name ?? "").
UpperCase == <<"A", "B", "C", "D", "E", "F", "G", "H", "I", "J", "K", "L", "M",
               "N", "O", "P", "Q", "R", "S", "T", "U", "V", "W", "X", "Y", "Z">>
LowerCase == <<"a", "b", "c", "d", "e", "f", "g", "h", "i", "j", "k", "l", "m",
               "n", "o", "p", "q", "r", "s", "t", "u", "v", "w", "x", "y", "z">>
toLowerCase(text) ==
    [i \in DOMAIN text |->
        IF \E j \in DOMAIN UpperCase : UpperCase[j] = text[i]
        THEN LowerCase[CHOOSE j \in DOMAIN UpperCase : UpperCase[j] = text[i]]
        ELSE text[i]]
includes(text, word) ==
    \E i \in 0..(Len(text) - Len(word)) : SubSeq(text, i + 1, i + Len(word)) = word

NitroSkuIds == {"521842865731829760", "521846918637420545"}
Nitro == <<"n", "i", "t", "r", "o">>
Orb == <<"o", "r", "b">>
Decoration == <<"d", "e", "c", "o", "r", "a", "t", "i", "o", "n">>
AvatarDecoration == <<"a", "v", "a", "t", "a", "r", " ">> \o Decoration
ProfileDecoration == <<"p", "r", "o", "f", "i", "l", "e", " ">> \o Decoration

\* One entry of config.rewardsConfig.rewards
Reward(skuId, orbQuantity, name, nameWithArticle) ==
    [skuId |-> skuId, orbQuantity |-> orbQuantity, name |-> name,
     nameWithArticle |-> nameWithArticle]
rewardLabel(reward) == toLowerCase(reward.name \o <<" ">> \o reward.nameWithArticle)

\* getQuestRewardCategories: what one reward adds to the set
rewardCategories(reward) ==
    LET label == rewardLabel(reward)
    IN  (IF reward.skuId \in NitroSkuIds \/ includes(label, Nitro)
         THEN {"nitro"} ELSE {})
        \cup (IF reward.orbQuantity > 0 \/ includes(label, Orb)
              THEN {"currency"} ELSE {})
        \cup (IF \/ includes(label, AvatarDecoration)
                 \/ includes(label, ProfileDecoration)
                 \/ includes(label, Decoration)
              THEN {"avatar_decoration"} ELSE {})

\* Mutant: the label is searched as written, without case folding.
getQuestRewardCategories_CaseSensitive(list) ==
    LET found == UNION {(IF r.skuId \in NitroSkuIds \/ includes(r.name \o <<" ">> \o r.nameWithArticle, Nitro)
                         THEN {"nitro"} ELSE {})
                        \cup (rewardCategories(r) \ {"nitro"}) :
                        r \in {list[i] : i \in DOMAIN list}}
    IN  IF found = {} THEN {"game_item"} ELSE found

getQuestRewardCategories(list) ==
    IF Len(list) = 0 THEN {"game_item"}
    ELSE LET found == UNION {rewardCategories(list[i]) : i \in DOMAIN list}
         IN  IF found = {} THEN {"game_item"} ELSE found

\* Mutant: every quest matches.
questMatchesRewardPreference_Any(list, preference) == TRUE

\* preference: settings.store.preferredRewardType, Null when it is not set.
questMatchesRewardPreference(list, preference) ==
    IF preference = Null \/ preference = "any" THEN TRUE
    ELSE preference \in getQuestRewardCategories(list)

\* ---- redeem codes
\* A value of a response: null or undefined, a string, a number, an array, or
\* an object as the sequence of its properties <<key, value>>.
JNull == [t |-> "null", v |-> <<>>]
JStr(text) == [t |-> "string", v |-> text]
JNum == [t |-> "number", v |-> <<>>]
JArr(items) == [t |-> "array", v |-> items]
JObj(properties) == [t |-> "object", v |-> properties]

Digits == {"0", "1", "2", "3", "4", "5", "6", "7", "8", "9"}
CodeChars ==
    {UpperCase[i] : i \in DOMAIN UpperCase} \cup {LowerCase[i] : i \in DOMAIN LowerCase}
    \cup Digits \cup {"-"}
\* codePattern: /^[A-Za-z0-9-]{8,}$/
MinCodeLen == 8
codePattern(text) == Len(text) >= MinCodeLen /\ \A i \in DOMAIN text : text[i] \in CodeChars
trim(text) ==
    LET inked == {i \in DOMAIN text : text[i] # " "}
    IN  IF inked = {} THEN <<>>
        ELSE SubSeq(text, CHOOSE i \in inked : \A j \in inked : i <= j,
                          CHOOSE i \in inked : \A j \in inked : i >= j)
keysToCheck == <<"code", "redemptionCode", "gift_code", "giftCode", "redeemableCode", "claimCode">>
\* walk's bound: a value nested deeper is not looked at
MaxDepth == 3

\* codes.add on the insertion-ordered Set
AddCode(codes, text) ==
    IF \E i \in DOMAIN codes : codes[i] = text THEN codes ELSE Append(codes, text)
TestString(codes, text) == IF codePattern(trim(text)) THEN AddCode(codes, trim(text)) ELSE codes
hasOwnProperty(properties, key) == \E i \in DOMAIN properties : properties[i][1] = key
\* value[key]: the property's last definition
Get(properties, key) ==
    properties[CHOOSE i \in DOMAIN properties :
                  /\ properties[i][1] = key
                  /\ \A j \in DOMAIN properties : properties[j][1] = key => j <= i][2]

RECURSIVE walk(_, _, _), walkItems(_, _, _), walkKeys(_, _, _, _), walkValues(_, _, _)
\* Mutant: the depth test is depth >= 3.
walk_Shallow(codes, value, depth) ==
    IF depth >= MaxDepth \/ value.t = "null" THEN codes
    ELSE IF value.t = "string" THEN TestString(codes, value.v)
    ELSE IF value.t = "array" THEN walkItems(codes, value.v, depth)
    ELSE IF value.t = "object"
    THEN walkValues(walkKeys(codes, value.v, keysToCheck, depth), value.v, depth)
    ELSE codes

\* gatherRedeemCodes: walk(value, depth), with the codes found so far
walk(codes, value, depth) ==
    IF depth > MaxDepth \/ value.t = "null" THEN codes
    ELSE IF value.t = "string" THEN TestString(codes, value.v)
    ELSE IF value.t = "array" THEN walkItems(codes, value.v, depth)
    ELSE IF value.t = "object"
    THEN walkValues(walkKeys(codes, value.v, keysToCheck, depth), value.v, depth)
    ELSE codes
\* for (const item of value) walk(item, depth + 1)
walkItems(codes, items, depth) ==
    IF items = <<>> THEN codes
    ELSE walkItems(walk(codes, Head(items), depth + 1), Tail(items), depth)
\* for (const key of keysToCheck) ...
walkKeys(codes, properties, keys, depth) ==
    IF keys = <<>> THEN codes
    ELSE walkKeys(IF hasOwnProperty(properties, Head(keys))
                  THEN walk(codes, Get(properties, Head(keys)), depth + 1)
                  ELSE codes, properties, Tail(keys), depth)
\* for (const nested of Object.values(value)) ...
walkValues(codes, properties, depth) ==
    IF properties = <<>> THEN codes
    ELSE LET nested == Head(properties)[2]
         IN  walkValues(IF nested.t = "string" THEN TestString(codes, nested.v)
                        ELSE IF nested.t \in {"object", "array", "null"}
                        THEN walk(codes, nested, depth + 1)
                        ELSE codes, Tail(properties), depth)

gatherRedeemCodes(body) == walk(<<>>, body, 0)

\* One line of settings.store.redeemCodes: `${code} (${questName} @ ${timestamp})`
Entry(code, questName, timestamp) == [code |-> code, quest |-> questName, at |-> timestamp]

\* Array.from(new Set(lines)): the first of equal lines is kept
RECURSIVE Unique(_)
Unique(lines) ==
    IF lines = <<>> THEN <<>>
    ELSE LET front == Unique(SubSeq(lines, 1, Len(lines) - 1))
             last == lines[Len(lines)]
         IN  IF \E i \in DOMAIN front : front[i] = last THEN front ELSE Append(front, last)

appendRedeemCodes(list, codes, questName, timestamp) ==
    IF Len(codes) = 0 THEN list
    ELSE Unique([i \in DOMAIN codes |-> Entry(codes[i], questName, timestamp)] \o list)

\* Strings a response may hold
Code1 == <<"A", "B", "C", "D", "1", "2", "3", "4">>
Code2 == <<"W", "X", "Y", "Z", "-", "5", "6", "7", "8">>
Padded1 == <<" ">> \o Code1 \o <<" ", " ">>
TooShort == <<"A", "B", "C", "D", "1", "2", "3">>
Spaced == <<"A", "B", "C", "D", " ", "1", "2", "3", "4">>
Nest(key, value) == JObj(<<<<key, value>>>>)

\* Responses of a resolved claim call (res?.body ?? res).
ClaimBodies ==
    <<JNull,
      Nest("reward", Nest("code", JStr(Code1))),
      JObj(<<<<"message", JStr(Spaced)>>, <<"count", JNum>>, <<"code", JNum>>,
             <<"id", JStr(TooShort)>>>>),
      JObj(<<<<"note", JStr(Code2)>>, <<"code", JStr(Padded1)>>>>),
      JArr(<<JStr(Code1), JStr(TooShort), JNull, JStr(Code1)>>),
      Nest("a", Nest("b", Nest("c", Nest("d", JStr(Code1))))),
      Nest("a", Nest("b", Nest("c", Nest("d", Nest("code", JStr(Code1)))))),
      Nest("a", Nest("b", Nest("items", JArr(<<JStr(Code2)>>)))),
      JStr(Code1)>>

\* The externally owned timestamps of a quest, as far as they are set.
Phases == {"eligible", "enrolled", "completed", "claimed"}
\* The other combinations of the three timestamps a store may hold.
Unordered ==
    {"completed unenrolled", "claimed unenrolled", "claimed only", "claimed uncompleted"}
enrolledAt(ph) == ph \in {"enrolled", "completed", "claimed", "claimed uncompleted"}
completedAt(ph) == ph \in {"completed", "claimed", "completed unenrolled", "claimed unenrolled"}
claimedAt(ph) ==
    ph \in {"claimed", "claimed unenrolled", "claimed only", "claimed uncompleted"}
\* The next timestamp arrives; a store with an unordered combination receives
\* the timestamps it lacks.
NextPhase(ph) ==
    IF ph = "eligible" THEN "enrolled" ELSE IF ph = "enrolled" THEN "completed" ELSE "claimed"

EmptyMap == [x \in {} |-> Null]
Put(map, k, v) == [x \in DOMAIN map \cup {k} |-> IF x = k THEN v ELSE map[x]]
One(x) == SetToBag({x})

\* The orchestrator's and the handlers' state, threaded through one synchronous run.
Local ==
    [completingQuest |-> completingQuest, fakeGames |-> fakeGames,
     fakeApplications |-> fakeApplications, handlers |-> handlers,
     claimingQuest |-> claimingQuest, claims |-> claims,
     deduped |-> {}, completed |-> EmptyBag, accepted |-> {}]

\* A handler.handle activation: its quest, and whether its callback is subscribed
\* to QUESTS_SEND_HEARTBEAT_SUCCESS or its application fetch is still pending.
Handler(q, st) == [quest |-> q, st |-> st]
Subscribed(hs, q) == CopiesIn(Handler(q, "subscribed"), hs)
Fetching(hs, q) == CopiesIn(Handler(q, "fetching"), hs)
\* A claimQuestReward activation and the await it is suspended at.
Claim(q, pc) == [quest |-> q, pc |-> pc]
ClaimsOf(cs, q) == BagCardinality([c \in {d \in BagToSet(cs) : d.quest = q} |-> cs[c]])

\* Mutant: the claimingQuest guard dropped.
claimQuestReward_NoDedup(L, q, claimed) ==
    IF ~autoClaimRewards THEN L
    ELSE IF claimed THEN L
    ELSE [L EXCEPT !.claimingQuest = @ \cup {q},
                   !.claims = @ (+) One(Claim(q, "primary"))]

\* claimQuestReward up to its first await; claimed is userStatus.claimedAt of
\* the quest object it was handed.
claimQuestReward(L, q, claimed) ==
    IF ~autoClaimRewards THEN L
    ELSE IF q \in L.claimingQuest THEN [L EXCEPT !.deduped = @ \cup {q}]
    ELSE IF claimed THEN L
    ELSE [L EXCEPT !.claimingQuest = @ \cup {q},
                   !.claims = @ (+) One(Claim(q, "primary"))]

\* Mutant: the tracker entry is left as it is.
handleQuestCompletion_KeepsActive(L, q) ==
    claimQuestReward([L EXCEPT !.completed = @ (+) One(q)], q, FALSE)

\* Mutant: the claim procedure is not invoked.
handleQuestCompletion_NoClaim(L, q) ==
    [L EXCEPT !.completed = @ (+) One(q),
              !.completingQuest = Put(@, q, FALSE)]

\* onQuestComplete: the quest object is the one completeQuest was handed, which
\* had no completedAt and so no claimedAt.
handleQuestCompletion(L, q) ==
    claimQuestReward([L EXCEPT !.completed = @ (+) One(q),
                               !.completingQuest = Put(@, q, FALSE)], q, FALSE)

\* A synthetic game or application: the quest's application, the pid
\* completeQuest drew for it, and its place in the iteration order of the
\* registry (a Map iterates in insertion order).
Fake(q, rank) == [id |-> q, pid |-> pids[q], rank |-> rank]
\* Map.set: a new key goes last, a key already there keeps its place.
Set(map, q) ==
    Put(map, q, Fake(q, IF q \in DOMAIN map THEN map[q].rank
                        ELSE Cardinality(DOMAIN map) + 1))
\* Map.delete: the entries after the deleted one move up.
Delete(map, q) ==
    IF q \notin DOMAIN map THEN map
    ELSE [x \in DOMAIN map \ {q} |->
             IF map[x].rank > map[q].rank THEN [map[x] EXCEPT !.rank = @ - 1] ELSE map[x]]
\* Array.from(map.values())
Values(map) ==
    [i \in 1..Cardinality(DOMAIN map) |->
        LET v == CHOOSE w \in {map[x] : x \in DOMAIN map} : w.rank = i
        IN  [id |-> v.id, pid |-> v.pid]]

\* Mutant: the first game of the registry, whatever its pid.
getGameForPID_First(games, pid) ==
    IF Cardinality(DOMAIN games) > 0 THEN <<Values(games)[1]>> ELSE <<>>

\* The patched accessors; <<>> stands for returning undefined.
getRunningGames(games) ==
    IF Cardinality(DOMAIN games) > 0 THEN <<Values(games)>> ELSE <<>>
getGameForPID(games, pid) ==
    IF Cardinality(DOMAIN games) > 0
    THEN LET found == {i \in DOMAIN Values(games) : Values(games)[i].pid = pid}
         IN  IF found = {} THEN <<>>
             ELSE <<Values(games)[CHOOSE i \in found : \A j \in found : i <= j]>>
    ELSE <<>>
getStreamerActiveStreamMetadata(apps) ==
    IF Cardinality(DOMAIN apps) > 0 THEN <<Values(apps)[1]>> ELSE <<>>

\* streamOnDesktopHandler.handle
streamOnDesktopHandle(L, q) ==
    [L EXCEPT !.fakeApplications = Set(@, q),
              !.handlers = @ (+) One(Handler(q, "subscribed"))]

\* playOnDesktopHandler.handle: the application fetch is started
playOnDesktopHandle(L, q) ==
    [L EXCEPT !.handlers = @ (+) One(Handler(q, "fetching"))]

\* The task kinds completeQuest looks for in taskConfig.tasks; TaskName(q) is
\* the first of them the quest has, Null when it has none.
RecognizedTasks ==
    {"WATCH_VIDEO", "PLAY_ON_DESKTOP", "STREAM_ON_DESKTOP", "PLAY_ACTIVITY",
     "WATCH_VIDEO_ON_MOBILE"}
VideoTasks == {"WATCH_VIDEO", "WATCH_VIDEO_ON_MOBILE"}
\* The kinds a handler of questHandlers supports: the two handlers at hand.
SupportedTasks == {"STREAM_ON_DESKTOP", "PLAY_ON_DESKTOP"}

\* completeQuest, with questHandlers.find(h => h.supports(taskName))
completeQuest(L, q) ==
    IF TaskName(q) \notin RecognizedTasks THEN L
    ELSE IF ~isApp /\ TaskName(q) \notin VideoTasks THEN L
    ELSE IF TaskName(q) \notin SupportedTasks
    THEN [L EXCEPT !.completingQuest = Put(@, q, FALSE)]
    ELSE LET M == [L EXCEPT !.completingQuest = Put(@, q, TRUE)]
         IN  IF TaskName(q) = "STREAM_ON_DESKTOP" THEN streamOnDesktopHandle(M, q)
             ELSE playOnDesktopHandle(M, q)

\* The progress a handler reads from an event, in half seconds.
Progress(q, v) == IF ConfigVersion(q) = 1 THEN v ELSE 2 * (v \div 2)

\* Mutant: the target is taken for met one second early.
Reached_Early(q, v) == Progress(q, v) >= 2 * SecondsNeeded - 2

\* progress >= secondsNeeded
Reached(q, v) == Progress(q, v) >= 2 * SecondsNeeded

\* completingQuest.get(quest.id) is truthy
Active(tracker, q) == q \in DOMAIN tracker /\ tracker[q]

\* Mutant: a handler that met its target stays subscribed.
Ended_StaysSubscribed(L, q) ==
    [L EXCEPT !.fakeGames = IF TaskName(q) = "PLAY_ON_DESKTOP" THEN Delete(@, q) ELSE @,
              !.fakeApplications = IF TaskName(q) = "STREAM_ON_DESKTOP" THEN Delete(@, q) ELSE @]

\* Mutant: the teardown empties both registries.
Ended_ClearsRegistries(L, q) ==
    [L EXCEPT !.fakeGames = EmptyMap,
              !.fakeApplications = EmptyMap,
              !.handlers = @ (-) One(Handler(q, "subscribed"))]

\* The callback's teardown: the fake entry is deleted and the callback unsubscribed.
Ended(L, q) ==
    [L EXCEPT !.fakeGames = IF TaskName(q) = "PLAY_ON_DESKTOP" THEN Delete(@, q) ELSE @,
              !.fakeApplications = IF TaskName(q) = "STREAM_ON_DESKTOP" THEN Delete(@, q) ELSE @,
              !.handlers = @ (-) One(Handler(q, "subscribed"))]

\* The callback of one subscribed handler of quest q (streamOnDesktop,
\* playOnDesktop) for an event of its quest.
callback(L, q, v) ==
    IF ~Active(L.completingQuest, q) \/ Reached(q, v)
    THEN IF Reached(q, v)
         THEN handleQuestCompletion(Ended(L, q), q)
         ELSE [Ended(L, q) EXCEPT !.completingQuest = Put(@, q, FALSE)]
    ELSE L

\* FluxDispatcher.dispatch of one heartbeat event: each of the n callbacks
\* subscribed when the dispatch began is called; one of another quest returns at once.
RECURSIVE dispatch(_, _, _, _)
dispatch(L, n, q, v) ==
    IF n = 0 THEN L ELSE dispatch(callback(L, q, v), n - 1, q, v)

\* Mutant: an expired quest that is not enrolled is still accepted.
Acceptable_IgnoresExpiry(ph, ex, q) == ~enrolledAt(ph[q])

\* acceptQuest up to its first await: the accept call is issued
acceptQuest(L, q) ==
    IF ~acceptQuestsAutomatically THEN L ELSE [L EXCEPT !.accepted = @ \cup {q}]

\* The filters of updateQuests over the store (ph: timestamps, ex: past expiresAt).
Acceptable(ph, ex, q) == ~enrolledAt(ph[q]) /\ ~ex[q]
Completable(ph, ex, q) == enrolledAt(ph[q]) /\ ~completedAt(ph[q]) /\ ~ex[q]
Claimable(ph, ex, q) == completedAt(ph[q]) /\ ~claimedAt(ph[q]) /\ ~ex[q]

\* Mutant: a stop-requested entry is removed and the handler dispatched at once.
passCompletable_Redispatches(L, q) ==
    IF q \in DOMAIN L.completingQuest
    THEN IF L.completingQuest[q] = FALSE
         THEN completeQuest([L EXCEPT !.completingQuest = Remove(@, q)], q)
         ELSE L
    ELSE completeQuest(L, q)

\* updateQuests: the body of the loop over completableQuests
passCompletable(L, q) ==
    IF q \in DOMAIN L.completingQuest
    THEN IF L.completingQuest[q] = FALSE
         THEN [L EXCEPT !.completingQuest = Remove(@, q)]
         ELSE L
    ELSE completeQuest(L, q)

\* updateQuests: the quest is among preferredQuests
Preferred(q) == questMatchesRewardPreference(rewards[q], preferredRewardType)

RECURSIVE passLoops(_, _, _, _, _)
\* updateQuests: the loops over acceptableQuests (stage 0), completableQuests
\* (stage 1) and claimableQuests (stage 2)
passLoops(L, order, stage, ph, ex) ==
    IF order = <<>> THEN L
    ELSE LET q == Head(order)
             M == IF ~Preferred(q) THEN L
                  ELSE IF stage = 0 /\ Acceptable(ph, ex, q) THEN acceptQuest(L, q)
                  ELSE IF stage = 1 /\ Completable(ph, ex, q) THEN passCompletable(L, q)
                  ELSE IF stage = 2 /\ Claimable(ph, ex, q)
                       THEN claimQuestReward(L, q, claimedAt(ph[q]))
                       ELSE L
         IN  passLoops(M, Tail(order), stage, ph, ex)

\* stopCompletingAll: only the quests of the last pass's completableQuests
stopCompletingAll(tracker) ==
    [q \in DOMAIN tracker |-> IF q \in completableQuests THEN FALSE ELSE tracker[q]]

Commit(L) ==
    /\ completingQuest' = L.completingQuest
    /\ fakeGames' = L.fakeGames
    /\ fakeApplications' = L.fakeApplications
    /\ handlers' = L.handlers
    /\ claimingQuest' = L.claimingQuest
    /\ claims' = L.claims
    /\ deduped' = L.deduped
    /\ completed' = L.completed
    /\ accepted' = L.accepted

\* updateQuests, run over the store (ph, ex).
updateQuests(ph, ex) ==
    LET L == passLoops(passLoops(passLoops(Local, QuestOrder, 0, ph, ex),
                                 QuestOrder, 1, ph, ex), QuestOrder, 2, ph, ex)
    IN  /\ BagCardinality(L.handlers) <= MaxHandlers
        /\ Commit(L)
        /\ completableQuests' = {q \in Quests : Preferred(q) /\ Completable(ph, ex, q)}

\* ---- RestAPI interception and the passive monitor
\* A function held by a RestAPI slot: the transport's own function, a copy of
\* it bound to RestAPI, or the plugin's wrapper.
Transport == [post |-> "transport", get |-> "transport"]
Bind(fns) == [m \in DOMAIN fns |-> IF fns[m] = "transport" THEN "bound" ELSE fns[m]]
Wrappers == [post |-> "wrapper", get |-> "wrapper"]
Intercepted(fn) == fn = "wrapper"

\* Mutant: the wrappers are left installed.
disableCaptchaBypass_KeepsWrappers ==
    /\ captchaBypassEnabled' = FALSE
    /\ UNCHANGED <<originalRestAPI, RestAPI>>

enableCaptchaBypass ==
    IF captchaBypassEnabled THEN UNCHANGED <<captchaBypassEnabled, originalRestAPI, RestAPI>>
    ELSE /\ originalRestAPI' = IF originalRestAPI = <<>> THEN <<Bind(RestAPI)>>
                               ELSE originalRestAPI
         /\ RestAPI' = Wrappers
         /\ captchaBypassEnabled' = TRUE

disableCaptchaBypass ==
    IF ~captchaBypassEnabled \/ originalRestAPI = <<>>
    THEN UNCHANGED <<captchaBypassEnabled, originalRestAPI, RestAPI>>
    ELSE /\ RestAPI' = originalRestAPI[1]
         /\ captchaBypassEnabled' = FALSE
         /\ UNCHANGED originalRestAPI

NoObserver == 0
NewObserver(active) == CHOOSE n \in 1..(Cardinality(active) + 1) : n \notin active

\* start(): the monitor is set up when automatic solving is switched on.
setupCaptchaMonitor ==
    IF autoCaptchaSolving
    THEN /\ captchaMonitor' = NewObserver(observers)
         /\ observers' = observers \cup {NewObserver(observers)}
    ELSE UNCHANGED <<captchaMonitor, observers>>

\* stop(): the kept observer is disconnected and forgotten.
cleanupCaptchaMonitor ==
    IF captchaMonitor # NoObserver
    THEN /\ observers' = observers \ {captchaMonitor}
         /\ captchaMonitor' = NoObserver
    ELSE UNCHANGED <<captchaMonitor, observers>>

\* The module variables after load.
RestIdle ==
    /\ captchaBypassEnabled = FALSE
    /\ originalRestAPI = <<>>
    /\ RestAPI = Transport
    /\ captchaMonitor = NoObserver
    /\ observers = {}

\* The store and the settings of the runs that vary neither: a desktop-presence
\* and a streaming quest without rewards, in the desktop app, any reward wanted.
EnvDefault ==
    /\ taskKind = [q \in Quests |-> IF q = "q1" THEN "PLAY_ON_DESKTOP" ELSE "STREAM_ON_DESKTOP"]
    /\ isApp = TRUE
    /\ rewards = [q \in Quests |-> <<>>]
    /\ preferredRewardType = "any"
    /\ pids = [q \in Quests |-> IF q = "q1" THEN MinPid ELSE MinPid + 1]

\* The quest state of a plugin that was never started.
QuestIdle ==
    /\ phase = [q \in Quests |-> "eligible"]
    /\ expired = [q \in Quests |-> FALSE]
    /\ listening = FALSE
    /\ completableQuests = {}
    /\ completingQuest = EmptyMap
    /\ fakeGames = EmptyMap
    /\ fakeApplications = EmptyMap
    /\ handlers = EmptyBag
    /\ claimingQuest = {}
    /\ claims = EmptyBag
    /\ deduped = {}
    /\ completed = EmptyBag
    /\ autoClaimRewards = TRUE
    /\ acceptQuestsAutomatically = TRUE
    /\ accepted = {}
    /\ autoCaptchaSolving = TRUE
    /\ RestIdle

\* The orchestrator before start(), with the quest store holding ph and ex and
\* automatic captcha solving, and accepting and claiming, switched as given.
QuestsAt(ph, ex, solving, claiming) ==
    /\ phase = ph
    /\ expired = ex
    /\ listening = FALSE
    /\ completableQuests = {}
    /\ completingQuest = EmptyMap
    /\ fakeGames = EmptyMap
    /\ fakeApplications = EmptyMap
    /\ handlers = EmptyBag
    /\ claimingQuest = {}
    /\ claims = EmptyBag
    /\ deduped = {}
    /\ completed = EmptyBag
    /\ autoClaimRewards = claiming
    /\ acceptQuestsAutomatically = claiming
    /\ accepted = {}
    /\ autoCaptchaSolving = solving
    /\ RestIdle

\* ------------------------------------------------------ SpecCache actions
\* The token cache on its own: cacheToken, getCachedToken, the sweep timer
\* and clearTokenCache, called in any order as time passes.
\* The token cache module after load, no settings read yet.
CacheIdle ==
    /\ now = 0
    /\ tokenCache = [x \in {} |-> Null]
    /\ cleanupInterval = NoTimer
    /\ timers = {}
    /\ cacheLog = NoCacheOp
    /\ lastStore = [k \in SiteKeys |-> NoStore]
    /\ calls = EmptyBag
    /\ result = NoResult
    /\ servicePreference = Null
    /\ apiKeys = NoApiKeys

InitCache == CacheIdle /\ QuestIdle /\ AuxIdle /\ EnvDefault

Tick ==
    /\ now < MaxTicks * TickMs
    /\ now' = now + TickMs
    /\ cacheLog' = NoCacheOp
    /\ UNCHANGED <<tokenCache, cleanupInterval, timers, lastStore, calls, result, settingsVars>>

\* The interval timer fires.
Sweep ==
    /\ timers # {}
    /\ tokenCache' = cleanupExpiredTokens(tokenCache, now)
    /\ cacheLog' = CacheOp("sweep", Null, Null, DOMAIN tokenCache \ DOMAIN tokenCache')
    /\ UNCHANGED <<now, cleanupInterval, timers, lastStore, calls, result, settingsVars>>

StartCleanup ==
    /\ startTokenCacheCleanup
    /\ cacheLog' = CacheOp("start", Null, Running, {})
    /\ UNCHANGED <<now, tokenCache, lastStore, calls, result, settingsVars>>

StopCleanup ==
    /\ stopTokenCacheCleanup
    /\ cacheLog' = CacheOp("stop", Null, Running, {})
    /\ UNCHANGED <<now, tokenCache, lastStore, calls, result, settingsVars>>

ClearCache ==
    /\ tokenCache' = clearTokenCache(tokenCache)
    /\ lastStore' = [k \in SiteKeys |-> NoStore]
    /\ cacheLog' = CacheOp("clear", Null, Null, {})
    /\ UNCHANGED <<now, cleanupInterval, timers, calls, result, settingsVars>>

Store(sitekey, token) ==
    /\ tokenCache' = cacheToken(tokenCache, sitekey, token, now)
    /\ lastStore' = [lastStore EXCEPT ![sitekey] = [token |-> token, at |-> now]]
    /\ cacheLog' = CacheOp("store", sitekey, token, {})
    /\ UNCHANGED <<now, cleanupInterval, timers, calls, result, settingsVars>>

Lookup(sitekey) ==
    /\ cacheLog' = CacheOp("lookup", sitekey, getCachedTokenValue(tokenCache, sitekey, now), {})
    /\ tokenCache' = getCachedTokenCache(tokenCache, sitekey, now)
    /\ UNCHANGED <<now, cleanupInterval, timers, lastStore, calls, result, settingsVars>>

NextCache ==
    \/ Tick
    \/ Sweep
    \/ StartCleanup
    \/ StopCleanup
    \/ ClearCache
    \/ \E sitekey \in SiteKeys, token \in Tokens : Store(sitekey, token)
    \/ \E sitekey \in SiteKeys : Lookup(sitekey)

SpecCache == InitCache /\ [][NextCache /\ UNCHANGED <<questVars, lifeVars, auxVars>>]_vars

\* ---------------------------------------------------- token cache claims
\* What the last cacheToken call for sitekey makes a lookup at time t return,
\* away from the instant of expiry itself.
StoredAt(sitekey) == lastStore[sitekey].at
Stored(sitekey) == lastStore[sitekey] # NoStore

\* C7: after store(k, t) with no later store or clear for k, a lookup of k
\* returns t at every time before the lifetime has elapsed and absent at every
\* time after it; a key never stored (or cleared since) is absent; so an expired
\* token is never returned, however stores, lookups and sweeps interleave.
C7_LookupFollowsStore ==
    cacheLog.op = "lookup" =>
        LET k == cacheLog.key
        IN  /\ (Stored(k) /\ now < StoredAt(k) + CACHE_LIFETIME_MS)
                => cacheLog.value = lastStore[k].token
            /\ (Stored(k) /\ now > StoredAt(k) + CACHE_LIFETIME_MS)
                => cacheLog.value = Null
            /\ ~Stored(k) => cacheLog.value = Null

C7_Witness ==
    /\ cacheLog.op = "lookup"
    /\ Stored(cacheLog.key)
    /\ now > StoredAt(cacheLog.key) + CACHE_LIFETIME_MS
    /\ cacheLog.value = Null
    /\ \E k \in SiteKeys \ {cacheLog.key} : k \in DOMAIN tokenCache

\* C8: a sweep removes exactly the entries whose expiry has passed and leaves
\* every other entry (key, token, timestamp, expiry) as it was.
C8_SweepExact ==
    [][Sweep =>
        /\ DOMAIN tokenCache' = {k \in DOMAIN tokenCache : now <= tokenCache[k].expiresAt}
        /\ \A k \in DOMAIN tokenCache' : tokenCache'[k] = tokenCache[k]]_vars

C8_Witness ==
    /\ cacheLog.op = "sweep"
    /\ cacheLog.removed # {}
    /\ DOMAIN tokenCache # {}

\* C9: start and stop of the sweep timer are idempotent: never more than one
\* timer is active, a start while one runs and a stop while none runs change
\* nothing, any stop leaves no timer active; clearTokenCache leaves the cache empty.
C9_TimerIdempotent ==
    [][/\ Cardinality(timers') <= 1
       /\ (StartCleanup /\ cleanupInterval # NoTimer) => UNCHANGED <<cleanupInterval, timers>>
       /\ StartCleanup => Cardinality(timers') = 1
       /\ (StopCleanup /\ cleanupInterval = NoTimer) => UNCHANGED <<cleanupInterval, timers>>
       /\ StopCleanup => timers' = {}
       /\ ClearCache => DOMAIN tokenCache' = {}]_vars

C9_Witness ==
    /\ cacheLog.op = "start"
    /\ cacheLog.value = "running"
    /\ Cardinality(timers) = 1
    /\ DOMAIN tokenCache # {}

\* ----------------------------------------------------- SpecBypass actions
\* bypassCaptcha as the program calls it, as time passes: the passive monitor
\* passes the configured preference and keys, every other caller (accept, claim,
\* the GET wrapper) passes the challenge alone.
InitBypass ==
    /\ now = 0
    /\ tokenCache = [x \in {} |-> Null]
    /\ cleanupInterval = NoTimer
    /\ timers = {}
    /\ cacheLog = NoCacheOp
    /\ lastStore = [k \in SiteKeys |-> NoStore]
    /\ calls = EmptyBag
    /\ result = NoResult
    /\ servicePreference \in Preferences \ {Null}
    /\ apiKeys \in ApiKeySets
    /\ QuestIdle
    /\ AuxIdle
    /\ EnvDefault

BypassTick ==
    /\ now < MaxBypassTicks * BypassTickMs
    /\ now' = now + BypassTickMs
    /\ result' = NoResult
    /\ UNCHANGED <<tokenCache, cleanupInterval, timers, cacheLog, lastStore, calls, settingsVars>>

\* setupCaptchaMonitor's observer resolves a challenge it saw.
MonitorBypassOf(sitekey) ==
    /\ bypassCaptcha(sitekey, servicePreference, apiKeys, "monitor")
    /\ UNCHANGED <<now, cleanupInterval, timers, cacheLog, lastStore, settingsVars>>

\* Mutant: the request callers hand over the configured preference and keys.
BareBypassOf_WithSettings(sitekey) ==
    /\ bypassCaptcha(sitekey, servicePreference, apiKeys, "request")
    /\ UNCHANGED <<now, cleanupInterval, timers, cacheLog, lastStore, settingsVars>>

\* acceptQuest, claimQuestReward or the GET wrapper resolves a challenge.
BareBypassOf(sitekey) ==
    /\ bypassCaptcha(sitekey, Null, NoApiKeys, "request")
    /\ UNCHANGED <<now, cleanupInterval, timers, cacheLog, lastStore, settingsVars>>

MonitorBypass == \E sitekey \in SiteKeys \cup {Null} : MonitorBypassOf(sitekey)

BareBypass == \E sitekey \in SiteKeys \cup {Null} : BareBypassOf(sitekey)

ProviderReturns ==
    \E c \in InFlight, token \in Tokens \cup {Null} :
        /\ providerReturns(c, token)
        /\ UNCHANGED <<now, cleanupInterval, timers, cacheLog, lastStore, settingsVars>>

FallbackReturns ==
    \E c \in InFlight, token \in Tokens \cup {Null} :
        /\ fallbackReturns(c, token)
        /\ UNCHANGED <<now, cleanupInterval, timers, cacheLog, lastStore, settingsVars>>

NextBypass ==
    \/ BypassTick
    \/ MonitorBypass
    \/ BareBypass
    \/ ProviderReturns
    \/ FallbackReturns

SpecBypass == InitBypass /\ [][NextBypass /\ UNCHANGED <<questVars, lifeVars, auxVars>>]_vars

\* ---------------------------------------------------------- bypass claims
\* C34: a resolution started by acceptQuest, claimQuestReward or the GET
\* wrapper never invokes a provider, whatever preference and keys are
\* configured: while it is in flight it awaits the DOM fallback with an empty
\* candidate list, and its result names no provider and no provider request,
\* and is a success only from the cache or from the fallback. A result that
\* names a provider belongs to a resolution of the monitor.
C34_RequestCallersUseNoProvider ==
    /\ \A c \in InFlight :
          c.caller = "request" => c.stage = "fallback" /\ c.services = <<>> /\ c.pref = Null
    /\ result.caller = "request" =>
          /\ result.invoked = <<>>
          /\ result.network = <<>>
          /\ result.success => (result.cacheHit \/ result.fallback)
    /\ result.invoked # <<>> => result.caller = "monitor"

\* A request caller's resolution succeeded through the fallback although a
\* provider key is configured and the preference is automatic.
C34_Witness ==
    /\ result.caller = "request"
    /\ result.success
    /\ result.fallback
    /\ ~result.cacheHit
    /\ servicePreference = "auto"
    /\ apiKeys.nopecha = "key"

Unexpired(sitekey) ==
    sitekey \in DOMAIN tokenCache /\ now <= tokenCache[sitekey].expiresAt

\* C10: a bypassCaptcha call for a challenge whose sitekey has an unexpired
\* cached token returns success with that token in the same step, starts no
\* provider and no DOM fallback, whatever the preference and the keys.
C10_CacheHitShortCircuits ==
    [][\A sitekey \in SiteKeys :
        ((MonitorBypassOf(sitekey) \/ BareBypassOf(sitekey)) /\ Unexpired(sitekey)) =>
            /\ result'.success
            /\ result'.token = tokenCache[sitekey].token
            /\ result'.invoked = <<>>
            /\ ~result'.fallback
            /\ calls' = calls
            /\ tokenCache' = tokenCache]_vars

C10_Witness ==
    /\ result.cacheHit
    /\ result.success
    /\ result.caller = "monitor"
    /\ servicePreference = "auto"
    /\ apiKeys.nopecha = "key"
    /\ result.sitekey \in DOMAIN tokenCache
    /\ result.token = tokenCache[result.sitekey].token

\* The fixed priority order of the providers.
PriorityOrder == <<"NopeCHA", "CapSolver", "2Captcha">>
KeyOf(keys, name) ==
    IF name = "NopeCHA" THEN keys.nopecha
    ELSE IF name = "CapSolver" THEN keys.capsolver ELSE keys.twoCaptcha
HasKey(keys, name) == KeyOf(keys, name) \notin {"", Null}
Named(pref) ==
    IF pref = "nopecha" THEN "NopeCHA" ELSE IF pref = "capsolver" THEN "CapSolver" ELSE "2Captcha"
\* The candidate list the resolution rules prescribe.
Candidates(pref, keys) ==
    IF pref \in {"auto", Null} THEN SelectSeq(PriorityOrder, LAMBDA n : HasKey(keys, n))
    ELSE IF pref \in {"nopecha", "capsolver", "2captcha"} /\ HasKey(keys, Named(pref))
         THEN <<Named(pref)>>
         ELSE <<>>
\* The preference and keys a caller hands to bypassCaptcha.
PrefOf(caller) == IF caller = "monitor" THEN servicePreference ELSE Null
KeysOf(caller) == IF caller = "monitor" THEN apiKeys ELSE NoApiKeys
\* The step is a bypassCaptcha call for sitekey by caller.
BypassBy(caller, sitekey) ==
    IF caller = "monitor" THEN MonitorBypassOf(sitekey) ELSE BareBypassOf(sitekey)
Callers == {"monitor", "request"}

\* C11: with no cached token, the providers a bypassCaptcha call invokes are,
\* in order, a prefix of the candidate list (automatic preference: the priority
\* order restricted to the providers with a key; named preference: that provider
\* if it has a key): the first candidate is invoked when the call starts, the
\* next one only when the one before returned no token, and the first token
\* returned ends the call with that token as result, cached under the sitekey;
\* requests go only to the candidates with a non-blank key.
C11_ProvidersInOrder ==
    [][/\ \A caller \in Callers, sitekey \in SiteKeys :
            (BypassBy(caller, sitekey) /\ ~Unexpired(sitekey)) =>
                LET cand == Candidates(PrefOf(caller), KeysOf(caller))
                IN  IF cand = <<>>
                    THEN \A c \in BagToSet(calls') : c.stage = "provider" => c \in InFlight
                    ELSE \E c \in BagToSet(calls') :
                            /\ calls' = calls (+) SetToBag({c})
                            /\ c.stage = "provider" /\ c.idx = 1
                            /\ c.sitekey = sitekey
                            /\ Names(c.services) = cand
       /\ \A c \in InFlight, token \in Tokens \cup {Null} :
            providerReturns(c, token) =>
                LET cand == Candidates(c.pref, KeysOf(c.caller))
                IN  /\ Names(c.services) = cand
                    /\ c.idx \in 1..Len(cand)
                    /\ IF token # Null
                       THEN /\ result'.success /\ result'.token = token
                            /\ ~result'.fallback
                            /\ result'.invoked = SubSeq(cand, 1, c.idx)
                            /\ result'.network =
                                  SelectSeq(result'.invoked,
                                            LAMBDA n : ~Blank(KeyOf(KeysOf(c.caller), n)))
                            /\ calls' = calls (-) SetToBag({c})
                            /\ c.sitekey \in DOMAIN tokenCache'
                            /\ tokenCache'[c.sitekey].token = token
                       ELSE /\ ~result'.success
                            /\ tokenCache' = tokenCache
                            /\ c.idx < Len(cand) =>
                                  calls' = (calls (-) SetToBag({c}))
                                              (+) SetToBag({[c EXCEPT !.idx = c.idx + 1]})]_vars

\* Under automatic preference the first provider failed and the second one's
\* token is the result and is cached under the sitekey.
C11_Witness ==
    /\ result.success /\ ~result.fallback /\ ~result.cacheHit
    /\ servicePreference = "auto"
    /\ Len(result.invoked) = 2
    /\ result.sitekey \in DOMAIN tokenCache
    /\ tokenCache[result.sitekey].token = result.token

\* The step puts a DOM fallback attempt in flight.
NewFallback ==
    \E c \in BagToSet(calls') : c.stage = "fallback" /\ CopiesIn(c, calls') > CopiesIn(c, calls)
\* The step is one in which a call has run out of providers: its last candidate
\* returned no token, or it started with no cached token and no candidate.
Exhausted ==
    \/ \E c \in InFlight : providerReturns(c, Null) /\ c.idx = Len(c.services)
                              /\ c.pref # "fallback"
    \/ \E caller \in Callers, sitekey \in SiteKeys :
          /\ BypassBy(caller, sitekey) /\ ~Unexpired(sitekey)
          /\ Candidates(PrefOf(caller), KeysOf(caller)) = <<>>
          /\ PrefOf(caller) # "fallback"

\* C12: a step starts a DOM fallback attempt exactly when it is one in which a
\* call ran out of providers under a preference other than "fallback"; no step
\* that returns a result (a provider's token, a cache hit, a failure) starts
\* one; and a fallback that yields a token ends the call with success, that
\* token as result and the token cached under the sitekey.
C12_FallbackExactlyWhenExhausted ==
    [][/\ NewFallback <=> Exhausted
       /\ result' # NoResult => ~NewFallback
       /\ \A c \in InFlight, token \in Tokens \cup {Null} :
            fallbackReturns(c, token) =>
                /\ result'.fallback
                /\ result'.invoked = Names(c.services)
                /\ calls' = calls (-) SetToBag({c})
                /\ IF token # Null
                   THEN /\ result'.success /\ result'.token = token
                        /\ c.sitekey \in DOMAIN tokenCache'
                        /\ tokenCache'[c.sitekey].token = token
                        /\ tokenCache'[c.sitekey].expiresAt = now + CACHE_LIFETIME_MS
                   ELSE ~result'.success /\ tokenCache' = tokenCache]_vars

\* Every provider of a two-provider list failed and the fallback's token is
\* the result and is cached.
C12_Witness ==
    /\ result.success /\ result.fallback
    /\ Len(result.invoked) = 2
    /\ result.sitekey \in DOMAIN tokenCache
    /\ tokenCache[result.sitekey].token = result.token

\* The step ends a bypassCaptcha call: one that was in flight, or one that
\* returns in the step that starts it.
Returns ==
    \/ BagCardinality(calls') < BagCardinality(calls)
    \/ \E caller \in Callers, sitekey \in SiteKeys \cup {Null} :
          BypassBy(caller, sitekey) /\ calls' = calls
\* No entry of the cache was added or altered (an expired one may be gone).
NothingCached ==
    \A k \in DOMAIN tokenCache' : k \in DOMAIN tokenCache /\ tokenCache'[k] = tokenCache[k]

\* C13 as stated: a step that ends a call returns a result, a success carries a
\* token, a failure carries a non-empty reason and belongs to a call that left
\* the token cache as it was; a call without a sitekey invokes nothing.
C13_FailureLeavesCacheUnchanged ==
    [][/\ Returns => result' # NoResult
       /\ result'.success => Truthy(result'.token)
       /\ (result' # NoResult /\ ~result'.success) =>
              Truthy(result'.error) /\ tokenCache' = tokenCache
       /\ \A caller \in Callers :
              BypassBy(caller, Null) =>
                  /\ ~result'.success /\ result'.error = "No sitekey in challenge"
                  /\ result'.invoked = <<>> /\ ~result'.fallback
                  /\ calls' = calls]_vars

\* C13, amended: as above, but a failing call leaves the cache without any new
\* or altered entry; the lookup it begins with may have evicted the expired
\* entry of its sitekey.
C13_FailureCachesNothing ==
    [][/\ Returns => result' # NoResult
       /\ result'.success => Truthy(result'.token)
       /\ (result' # NoResult /\ ~result'.success) =>
              Truthy(result'.error) /\ NothingCached
       /\ \A caller \in Callers :
              BypassBy(caller, Null) =>
                  /\ ~result'.success /\ result'.error = "No sitekey in challenge"
                  /\ result'.invoked = <<>> /\ ~result'.fallback
                  /\ calls' = calls /\ tokenCache' = tokenCache]_vars

\* Providers and fallback all failed; the call returned the failure.
C13_Witness ==
    /\ result # NoResult /\ ~result.success
    /\ result.error = AllFailed
    /\ result.fallback
    /\ Len(result.invoked) >= 1

\* ------------------------------------------------------- SpecQuest actions
\* The plugin before start(), with automatic accepting and claiming both on or
\* both off, and automatic captcha solving switched off (a failed claim call is
\* not retried).
InitQuest ==
    /\ CacheIdle
    /\ AuxIdle
    /\ EnvDefault
    /\ phase = [q \in Quests |-> "eligible"]
    /\ expired = [q \in Quests |-> FALSE]
    /\ listening = FALSE
    /\ completableQuests = {}
    /\ completingQuest = EmptyMap
    /\ fakeGames = EmptyMap
    /\ fakeApplications = EmptyMap
    /\ handlers = EmptyBag
    /\ claimingQuest = {}
    /\ claims = EmptyBag
    /\ deduped = {}
    /\ completed = EmptyBag
    /\ autoClaimRewards \in BOOLEAN
    /\ acceptQuestsAutomatically = autoClaimRewards
    /\ accepted = {}
    /\ autoCaptchaSolving = FALSE
    /\ RestIdle

IdleCache == UNCHANGED <<now, tokenCache, cacheLog, lastStore, calls, result, settingsVars>>
Settings == UNCHANGED <<autoClaimRewards, acceptQuestsAutomatically, autoCaptchaSolving>>
NoLog == deduped' = {} /\ completed' = EmptyBag /\ accepted' = {}

\* The plugin's start()
Start ==
    /\ ~listening
    /\ listening' = TRUE
    /\ updateQuests(phase, expired)
    /\ enableCaptchaBypass
    /\ startTokenCacheCleanup
    /\ setupCaptchaMonitor
    /\ IdleCache
    /\ Settings
    /\ UNCHANGED <<phase, expired>>

\* The plugin's stop()
Stop ==
    /\ listening
    /\ listening' = FALSE
    /\ completingQuest' = stopCompletingAll(completingQuest)
    /\ disableCaptchaBypass
    /\ stopTokenCacheCleanup
    /\ tokenCache' = clearTokenCache(tokenCache)
    /\ cleanupCaptchaMonitor
    /\ NoLog
    /\ Settings
    /\ UNCHANGED <<now, cacheLog, lastStore, calls, result, settingsVars>>
    /\ UNCHANGED <<phase, expired, completableQuests, fakeGames, fakeApplications,
                   handlers, claimingQuest, claims>>

\* What follows a change of the quest store: the change listener, if registered.
Listener(ph, ex) ==
    IF listening THEN updateQuests(ph, ex)
    ELSE /\ NoLog
         /\ UNCHANGED <<completableQuests, completingQuest, fakeGames, fakeApplications,
                        handlers, claimingQuest, claims>>

\* The store receives the quest's next timestamp (enrolledAt, completedAt, claimedAt).
Advance(q) ==
    /\ phase[q] # "claimed"
    /\ ~expired[q]
    /\ phase' = [phase EXCEPT ![q] = NextPhase(@)]
    /\ Listener(phase', expired)
    /\ Settings
    /\ UNCHANGED <<expired, listening, cacheVars, restVars>>

\* The quest's expiresAt passes; the store emits a change afterwards.
Expire(q) ==
    /\ ~expired[q]
    /\ expired' = [expired EXCEPT ![q] = TRUE]
    /\ Listener(phase, expired')
    /\ Settings
    /\ UNCHANGED <<phase, listening, cacheVars, restVars>>

\* The store emits a change that leaves the quests as they are.
EmitChange ==
    /\ listening
    /\ updateQuests(phase, expired)
    /\ Settings
    /\ UNCHANGED <<phase, expired, listening, cacheVars, restVars>>

\* QUESTS_SEND_HEARTBEAT_SUCCESS for quest q with progress v is dispatched.
Event(q, v) ==
    /\ Subscribed(handlers, q) > 0
    /\ Commit(dispatch(Local, Subscribed(handlers, q), q, v))
    /\ Settings
    /\ UNCHANGED <<phase, expired, listening, completableQuests, cacheVars, restVars>>

\* playOnDesktopHandler: the application fetch of a handler of quest q settles.
FetchDone(q, ok) ==
    /\ Fetching(handlers, q) > 0
    /\ IF ok
       THEN /\ fakeGames' = Set(fakeGames, q)
            /\ handlers' = (handlers (-) One(Handler(q, "fetching")))
                              (+) One(Handler(q, "subscribed"))
            /\ UNCHANGED completingQuest
       ELSE /\ completingQuest' = Put(completingQuest, q, FALSE)
            /\ handlers' = handlers (-) One(Handler(q, "fetching"))
            /\ UNCHANGED fakeGames
    /\ NoLog
    /\ Settings
    /\ UNCHANGED <<phase, expired, listening, completableQuests, fakeApplications,
                   claimingQuest, claims, cacheVars, restVars>>

\* Mutant: the id stays in the deduper when the procedure ends.
ClaimEnds_KeepsId(c) ==
    /\ claims' = claims (-) One(c)
    /\ UNCHANGED claimingQuest

\* claimQuestReward's finally
ClaimEnds(c) ==
    /\ claims' = claims (-) One(c)
    /\ claimingQuest' = claimingQuest \ {c.quest}

\* claimQuestReward: a remote call of tryClaim resolves.
ClaimSucceeds(c) ==
    /\ c.pc \in {"primary", "retry", "secondary", "retry2"}
    /\ ClaimEnds(c)
    /\ NoLog
    /\ Settings
    /\ UNCHANGED <<phase, expired, listening, completableQuests, completingQuest, fakeGames,
                   fakeApplications, handlers, cacheVars, restVars>>

\* Mutant: a retry that fails with a challenge goes back to the bypass.
tryClaimFails_BypassesAgain(pc, challenge) ==
    CASE pc = "primary" -> IF challenge THEN "bypass" ELSE "secondary"
      [] pc = "bypass" -> IF challenge THEN "retry" ELSE "secondary"
      [] pc = "retry" -> IF challenge THEN "bypass" ELSE "secondary"
      [] pc = "secondary" -> IF challenge THEN "bypass2" ELSE "done"
      [] pc = "bypass2" -> IF challenge THEN "retry2" ELSE "done"
      [] OTHER -> IF challenge THEN "bypass2" ELSE "done"

\* Where claimQuestReward goes on when the await at pc does not give a success.
tryClaimFails(pc, challenge) ==
    CASE pc = "primary" -> IF challenge THEN "bypass" ELSE "secondary"
      [] pc = "bypass" -> IF challenge THEN "retry" ELSE "secondary"
      [] pc = "retry" -> "secondary"
      [] pc = "secondary" -> IF challenge THEN "bypass2" ELSE "done"
      [] pc = "bypass2" -> IF challenge THEN "retry2" ELSE "done"
      [] OTHER -> "done"

\* claimQuestReward: a remote call of tryClaim rejects (challenge: the error
\* carries a captcha), or bypassCaptcha returns (challenge: with a token).
ClaimFails(c, challenge) ==
    /\ challenge => autoCaptchaSolving
    /\ LET next == tryClaimFails(c.pc, challenge)
       IN  IF next = "done"
           THEN ClaimEnds(c)
           ELSE /\ claims' = (claims (-) One(c)) (+) One(Claim(c.quest, next))
                /\ UNCHANGED claimingQuest
    /\ NoLog
    /\ Settings
    /\ UNCHANGED <<phase, expired, listening, completableQuests, completingQuest, fakeGames,
                   fakeApplications, handlers, cacheVars, restVars>>

NextQuest ==
    \/ Start
    \/ Stop
    \/ \E q \in Quests : Advance(q)
    \/ \E q \in Quests : Expire(q)
    \/ EmitChange
    \/ \E q \in Quests, v \in ProgressValues : Event(q, v)
    \/ \E q \in Quests, ok \in BOOLEAN : FetchDone(q, ok)
    \/ \E c \in BagToSet(claims) : ClaimSucceeds(c)
    \/ \E c \in BagToSet(claims), challenge \in BOOLEAN : ClaimFails(c, challenge)

SpecQuest == InitQuest /\ [][NextQuest /\ UNCHANGED auxVars]_vars

\* ------------------------------------------------------------ quest claims
Live(hs, q) == Subscribed(hs, q) + Fetching(hs, q)
StopRequested(tracker, q) == q \in DOMAIN tracker /\ tracker[q] = FALSE
\* The number of subscriptions of quest q that the step removed.
Unsubscribed(q) ==
    IF Subscribed(handlers', q) < Subscribed(handlers, q)
    THEN Subscribed(handlers, q) - Subscribed(handlers', q) ELSE 0

\* C1: for a single subscribed handler whose tracker entry is actively
\* completing, an event with progress below the target leaves the handler
\* subscribed and invokes nothing; the first event with progress at or above the
\* target invokes the completion callback exactly once and unsubscribes the
\* handler in the same step, and no step invokes more completions for a quest
\* than it removes subscriptions of that quest, so an unsubscribed handler never
\* invokes it again.
C1_CompletionExactlyOnce ==
    [][/\ \A q \in Quests : CopiesIn(q, completed') <= Unsubscribed(q)
       /\ \A q \in Quests, v \in ProgressValues :
            (Event(q, v) /\ Subscribed(handlers, q) = 1 /\ Active(completingQuest, q)) =>
                IF Progress(q, v) >= 2 * SecondsNeeded
                THEN completed' = One(q) /\ Subscribed(handlers', q) = 0
                ELSE completed' = EmptyBag /\ handlers' = handlers]_vars

\* A handler has just completed its quest and is gone.
C1_Witness ==
    \E q \in Quests :
        /\ completed = One(q)
        /\ Live(handlers, q) = 0
        /\ StopRequested(completingQuest, q)

\* C2: no step invokes the completion callback of a quest whose tracker entry is
\* stop-requested when the step begins.
C2_NoCompletionAfterStop ==
    [][\A q \in Quests :
          StopRequested(completingQuest, q) => CopiesIn(q, completed') = 0]_vars

\* C3: at most one handler is subscribed to progress events for a quest.
C3_AtMostOneHandler == \A q \in Quests : Subscribed(handlers, q) <= 1

\* C4 as stated: a quest id is a key of the tracker only while a handler of the
\* quest is subscribed, and a step that unsubscribes a handler removes the id.
C4_KeyOnlyWhileSubscribed ==
    [][\A q \in Quests :
          /\ q \in DOMAIN completingQuest' => Subscribed(handlers', q) > 0
          /\ Unsubscribed(q) > 0 => q \notin DOMAIN completingQuest']_vars

\* C4, amended: a quest id maps to "actively completing" only while a handler
\* of the quest is subscribed or still fetching, and a step that unsubscribes a
\* handler leaves the id in the tracker as stop-requested.
C4_ActiveOnlyWhileHandled ==
    [][\A q \in Quests :
          /\ Active(completingQuest', q) => Live(handlers', q) > 0
          /\ Unsubscribed(q) > 0 => StopRequested(completingQuest', q)]_vars

\* A handler stopped short of its target: it is gone, its id is still a key.
C4_Witness ==
    \E q \in Quests :
        /\ StopRequested(completingQuest, q)
        /\ Live(handlers, q) = 0
        /\ completed = EmptyBag
        /\ q \in completableQuests

\* C5: a quest id is a key of fakeGames exactly while a play-on-desktop handler
\* of the quest is subscribed, and a key of fakeApplications exactly while a
\* stream-on-desktop handler of the quest is subscribed.
C5_FakeEntryIffSubscribed ==
    \A q \in Quests :
        /\ q \in DOMAIN fakeGames <=>
              (TaskName(q) = "PLAY_ON_DESKTOP" /\ Subscribed(handlers, q) > 0)
        /\ q \in DOMAIN fakeApplications <=>
              (TaskName(q) = "STREAM_ON_DESKTOP" /\ Subscribed(handlers, q) > 0)

\* Both registries hold an entry.
C5_Witness ==
    /\ DOMAIN fakeGames # {}
    /\ DOMAIN fakeApplications # {}

\* C6: for every quest id at most one claim is in flight, claimingQuest holds
\* exactly the ids with one, and a claimQuestReward call made for an id in
\* claimingQuest adds none.
C6_OneClaimInFlight ==
    \A q \in Quests :
        /\ ClaimsOf(claims, q) <= 1
        /\ q \in claimingQuest <=> ClaimsOf(claims, q) = 1
        /\ q \in deduped => ClaimsOf(claims, q) = 1

\* A claimQuestReward call has just returned at the claimingQuest guard.
C6_Witness == \E q \in Quests : q \in deduped /\ q \in claimingQuest

\* ------------------------------------------------------ pass and shutdown
\* The step runs a polling pass.
Pass ==
    \/ Start
    \/ EmitChange
    \/ \E q \in Quests : listening /\ (Advance(q) \/ Expire(q))

\* C17: what a polling pass does for a quest follows from the quest's store
\* fields as the pass reads them: an accept call only if it is not enrolled and
\* not expired (and then always, when accepting is automatic), a handler only if
\* it is enrolled, not completed and not expired, a claim only if it is
\* completed, not claimed and not expired; an expired or claimed quest gets none.
C17_PassFollowsStore ==
    [][Pass =>
        \A q \in Quests :
            /\ q \in accepted' <=>
                  (acceptQuestsAutomatically /\ phase'[q] = "eligible" /\ ~expired'[q])
            /\ Live(handlers', q) > Live(handlers, q) =>
                  (phase'[q] = "enrolled" /\ ~expired'[q])
            /\ ClaimsOf(claims', q) > ClaimsOf(claims, q) =>
                  (phase'[q] = "completed" /\ ~expired'[q])
            /\ (expired'[q] \/ phase'[q] = "claimed") =>
                  /\ q \notin accepted'
                  /\ Live(handlers', q) = Live(handlers, q)
                  /\ ClaimsOf(claims', q) = ClaimsOf(claims, q)]_vars

\* A pass accepted one quest and passed over the other, expired before it
\* was enrolled.
C17_Witness ==
    /\ listening
    /\ \E q \in Quests : q \in accepted
    /\ \E q \in Quests : expired[q] /\ phase[q] = "eligible" /\ q \notin accepted

\* C18: after stop() no entry of the completion tracker is actively completing.
C18_StopFlipsEveryEntry ==
    [][Stop => \A q \in Quests : ~Active(completingQuest', q)]_vars

\* C19: when the application fetch of a play-on-desktop handler settles for a
\* quest whose tracker entry is stop-requested, the handler ends there: nothing
\* is subscribed, no fake game is registered, no completion is signalled.
C19_FetchSeesStopFlag ==
    [][\A q \in Quests, ok \in BOOLEAN :
          (FetchDone(q, ok) /\ StopRequested(completingQuest, q)) =>
              /\ Subscribed(handlers', q) = Subscribed(handlers, q)
              /\ Fetching(handlers', q) = Fetching(handlers, q) - 1
              /\ fakeGames' = fakeGames
              /\ completed' = EmptyBag]_vars

\* C29: a pass dispatches no handler for an in-progress quest whose id is in
\* the tracker when the pass begins: an actively completing entry stays as it
\* is, a stop-requested entry is removed, and in both cases the quest has the
\* same handlers after the pass as before it.
C29_NoDispatchWhileTracked ==
    [][Pass =>
        \A q \in DOMAIN completingQuest :
            Completable(phase', expired', q) =>
                /\ Subscribed(handlers', q) = Subscribed(handlers, q)
                /\ Fetching(handlers', q) = Fetching(handlers, q)
                /\ (q \in DOMAIN fakeGames') = (q \in DOMAIN fakeGames)
                /\ (q \in DOMAIN fakeApplications') = (q \in DOMAIN fakeApplications)
                /\ IF completingQuest[q] THEN Active(completingQuest', q)
                   ELSE q \notin DOMAIN completingQuest']_vars

\* The last pass removed the stop-requested entry of an in-progress quest and
\* dispatched nothing for it: the quest has neither entry nor handler.
C29_Witness ==
    /\ listening
    /\ \E q \in completableQuests :
          /\ Completable(phase, expired, q)
          /\ q \notin DOMAIN completingQuest
          /\ Live(handlers, q) = 0

\* What a map holds for a quest, if anything.
EntryOf(map, q) == IF q \in DOMAIN map THEN <<map[q]>> ELSE <<>>
\* The step leaves everything the orchestrator keeps for quest b as it is.
Untouched(b) ==
    /\ EntryOf(completingQuest', b) = EntryOf(completingQuest, b)
    /\ (b \in DOMAIN fakeGames') = (b \in DOMAIN fakeGames)
    /\ (b \in DOMAIN fakeApplications') = (b \in DOMAIN fakeApplications)
    /\ Subscribed(handlers', b) = Subscribed(handlers, b)
    /\ Fetching(handlers', b) = Fetching(handlers, b)
    /\ (b \in claimingQuest') = (b \in claimingQuest)
    /\ ClaimsOf(claims', b) = ClaimsOf(claims, b)

C31_CompletionStopsAndClaims ==
    [][\A q \in BagToSet(completed') :
          /\ StopRequested(completingQuest', q)
          /\ IF ~autoClaimRewards
             THEN claims' = claims /\ claimingQuest' = claimingQuest
             ELSE IF q \in claimingQuest
             THEN ClaimsOf(claims', q) = ClaimsOf(claims, q) /\ q \in deduped'
             ELSE /\ ClaimsOf(claims', q) = ClaimsOf(claims, q) + 1
                  /\ CopiesIn(Claim(q, "primary"), claims')
                        = CopiesIn(Claim(q, "primary"), claims) + 1
                  /\ q \in claimingQuest']_vars

\* A completion callback has just issued the claim call of its quest.
C31_Witness ==
    \E q \in Quests :
        /\ completed = One(q)
        /\ autoClaimRewards
        /\ CopiesIn(Claim(q, "primary"), claims) = 1
        /\ q \in claimingQuest
        /\ q \notin deduped

\* ------------------------------------------------------ SpecDetect actions
InitDetect ==
    /\ CacheIdle
    /\ QuestIdle
    /\ EnvDefault
    /\ response \in Responses
    /\ detection = NotCalled
    /\ claimLog = NoReport
    /\ accepts = EmptyBag
    /\ poll = PollIdle
    /\ categories = NotClassified
    /\ redeemCodes = <<>>

Detect ==
    /\ ~detection.called
    /\ detection' = [called |-> TRUE, out |-> detectCaptchaChallenge(response)]
    /\ UNCHANGED <<response, remoteVars, pureVars, envVars>>

NextDetect == Detect

SpecDetect == InitDetect /\ [][NextDetect /\ UNCHANGED <<cacheVars, questVars, lifeVars>>]_vars

\* The level carries a challenge: a non-empty captcha_key or captcha_sitekey.
Carries(l) == l.captcha_key \notin {Null, ""} \/ l.captcha_sitekey \notin {Null, ""}
Copied(l, d) ==
    /\ d.captcha_key = l.captcha_key
    /\ d.captcha_sitekey = l.captcha_sitekey
    /\ d.captcha_rqdata = l.captcha_rqdata
    /\ d.captcha_rqtoken = l.captcha_rqtoken
    /\ d.captcha_service = IF l.captcha_service \in {Null, ""} THEN "hcaptcha"
                           ELSE l.captcha_service

\* C14: detectCaptchaChallenge returns a descriptor exactly when the object
\* carries a non-empty captcha_key or captcha_sitekey at its top level or in the
\* object under its body property; the descriptor's fields are those of the top
\* level if it carries one, else those of the body (the service defaulting to
\* "hcaptcha"); null, and an object with only unrelated or deeper-nested
\* fields, give absent.
C14_DetectsTopThenBody ==
    detection.called =>
        IF response = <<>> THEN detection.out = <<>>
        ELSE LET r == response[1]
             IN  IF Carries(r.fields)
                 THEN Len(detection.out) = 1 /\ Copied(r.fields, detection.out[1])
                 ELSE IF r.body # <<>> /\ Carries(r.body[1].fields)
                 THEN Len(detection.out) = 1 /\ Copied(r.body[1].fields, detection.out[1])
                 ELSE detection.out = <<>>

\* A challenge found under body while the top level has an empty sitekey and
\* an unrelated field.
C14_Witness ==
    /\ detection.called
    /\ response # <<>>
    /\ response[1].message = "msg"
    /\ response[1].fields.captcha_sitekey = ""
    /\ detection.out # <<>>
    /\ detection.out[1].captcha_sitekey = "b-site"
    /\ detection.out[1].captcha_service = "hcaptcha"

\* -------------------------------------------------------- SpecLife actions
\* The plugin switched on and off while tokens are cached, time passes and
\* the user flips the automatic-solving setting.
InitLife == InitCache

\* The user flips settings.store.autoCaptchaSolving.
ToggleSolving ==
    /\ autoCaptchaSolving' = ~autoCaptchaSolving
    /\ UNCHANGED <<cacheVars, questVars, restVars>>

\* A bypass caches a token (cacheToken); time passes.
CacheFills(sitekey, token) == Store(sitekey, token) /\ UNCHANGED <<questVars, lifeVars>>
TimePasses == Tick /\ UNCHANGED <<questVars, lifeVars>>

NextLife ==
    \/ Start
    \/ Stop
    \/ ToggleSolving
    \/ \E sitekey \in SiteKeys, token \in Tokens : CacheFills(sitekey, token)
    \/ TimePasses

SpecLife == InitLife /\ [][NextLife /\ UNCHANGED auxVars]_vars

\* C20: every stop() leaves the plugin switched off: the change listener is
\* removed, RestAPI.post and RestAPI.get call the transport without the
\* plugin's wrapper, no sweep timer is active, the token cache is empty and no
\* monitor is observing; this holds for the first start()/stop() pair and for
\* every later one.
C20_StopReversesStart ==
    [][Stop =>
          /\ ~listening'
          /\ ~Intercepted(RestAPI'.post) /\ ~Intercepted(RestAPI'.get)
          /\ ~captchaBypassEnabled'
          /\ timers' = {} /\ cleanupInterval' = NoTimer
          /\ DOMAIN tokenCache' = {}
          /\ observers' = {} /\ captchaMonitor' = NoObserver]_vars

\* The plugin is off after a stop() that found a token cached, and whose
\* start() ran with the setting other than it is now.
C20_Witness ==
    /\ ~listening
    /\ originalRestAPI # <<>>
    /\ RestAPI = Bind(Transport)
    /\ Stored("k1")
    /\ DOMAIN tokenCache = {}
    /\ now = 0
    /\ ~autoCaptchaSolving
    /\ observers = {}

\* ------------------------------------------------------- SpecClaim actions
\* Claim procedures with automatic solving switched on: the store moves the
\* quests on, the passes start claims, and every remote call and bypass of a
\* claim resolves either way.
InitClaim == InitCache

\* A step of the orchestrator that ends no claim procedure.
NoClaimEnds ==
    /\ Start \/ EmitChange \/ \E q \in Quests : Advance(q)
    /\ claimLog' = NoReport
    /\ UNCHANGED redeemCodes

\* tryClaim: what gatherRedeemCodes collects from each response.
collectedCodes == [i \in DOMAIN ClaimBodies |-> gatherRedeemCodes(ClaimBodies[i])]

\* A remote call of the claim resolves with the i-th response: its codes are
\* saved and "Claimed reward" is logged.
ClaimResolvesWith(c, i) ==
    /\ ClaimSucceeds(c)
    /\ redeemCodes' = appendRedeemCodes(redeemCodes, collectedCodes[i], c.quest, now)
    /\ claimLog' = Report(c.quest, TRUE)

ClaimResolves(c) == \E i \in DOMAIN ClaimBodies : ClaimResolvesWith(c, i)

\* A remote call of the claim rejects or its bypass returns; when that was the
\* procedure's last attempt, "Failed to claim reward" is logged.
ClaimRejects(c, challenge) ==
    /\ ClaimFails(c, challenge)
    /\ claimLog' = IF tryClaimFails(c.pc, challenge) = "done" THEN Report(c.quest, FALSE)
                   ELSE NoReport
    /\ UNCHANGED redeemCodes

NextClaim ==
    \/ NoClaimEnds
    \/ \E c \in BagToSet(claims) : ClaimResolves(c)
    \/ \E c \in BagToSet(claims), challenge \in BOOLEAN : ClaimRejects(c, challenge)

SpecClaim == InitClaim /\ [][NextClaim /\ UNCHANGED <<detectVars, accepts, poll, categories, envVars>>]_vars

\* The positions of a claim procedure: the endpoint it is at, and whether it
\* awaits the endpoint's first call, the bypass or the retried call.
Endpoint(pc) == IF pc \in {"primary", "bypass", "retry"} THEN "claim-reward" ELSE "reward-code"
Attempt(pc) ==
    CASE pc \in {"primary", "secondary"} -> "call"
      [] pc \in {"bypass", "bypass2"} -> "bypass"
      [] OTHER -> "retry"
At(cs, q, endpoint, attempt) ==
    BagCardinality([c \in {d \in BagToSet(cs) : /\ d.quest = q
                                                  /\ Endpoint(d.pc) = endpoint
                                                  /\ Attempt(d.pc) = attempt} |-> cs[c]])
Enters(q, endpoint, attempt) == At(claims', q, endpoint, attempt) > At(claims, q, endpoint, attempt)
EndpointsOf == {"claim-reward", "reward-code"}

Accept(q, pc, issued, bypasses) == [quest |-> q, pc |-> pc, issued |-> issued,
                                    bypasses |-> bypasses]

\* Mutant: a retried accept that fails with a challenge is bypassed again.
acceptFails_BypassesAgain(pc, challenge, solving) ==
    CASE pc \in {"call", "retry"} -> IF solving /\ challenge THEN "bypass" ELSE "done"
      [] pc = "bypass" -> IF challenge THEN "retry" ELSE "done"
      [] OTHER -> "done"

\* Where acceptQuest goes on when the await at pc does not give a success:
\* the call rejected (challenge: the error carries a captcha), or the bypass
\* returned (challenge: with success).
acceptFails(pc, challenge, solving) ==
    CASE pc = "call" -> IF solving /\ challenge THEN "bypass" ELSE "done"
      [] pc = "bypass" -> IF challenge THEN "retry" ELSE "done"
      [] OTHER -> "done"

InitAccept == InitCache

\* The user flips settings.store.acceptQuestsAutomatically.
ToggleAccepting ==
    /\ acceptQuestsAutomatically' = ~acceptQuestsAutomatically
    /\ NoLog
    /\ accepts' = accepts
    /\ UNCHANGED <<phase, expired, listening, completableQuests, completingQuest, fakeGames,
                   fakeApplications, handlers, claimingQuest, claims, autoClaimRewards,
                   cacheVars, lifeVars>>

\* The user flips settings.store.autoCaptchaSolving.
ToggleAcceptSolving == ToggleSolving /\ accepts' = accepts

\* A step of the orchestrator: each quest its pass calls acceptQuest for, with
\* accepting switched on, gets an activation awaiting the first accept call.
AcceptPass ==
    /\ Start \/ EmitChange \/ \E q \in Quests : Advance(q)
    /\ BagCardinality(accepts) + Cardinality(accepted') <= MaxAccepts
    /\ accepts' = accepts (+) SetToBag({Accept(q, "call", 1, 0) : q \in accepted'})

\* An accept call resolves: acceptQuest returns.
AcceptResolves(a) ==
    /\ a.pc \in {"call", "retry"}
    /\ accepts' = accepts (-) One(a)
    /\ UNCHANGED <<questVars, cacheVars, lifeVars>>

\* An accept call rejects, or the bypass returns.
AcceptRejects(a, challenge) ==
    /\ LET next == acceptFails(a.pc, challenge, autoCaptchaSolving)
       IN  accepts' = (accepts (-) One(a)) (+)
               (CASE next = "bypass" -> One(Accept(a.quest, next, a.issued, a.bypasses + 1))
                  [] next = "retry" -> One(Accept(a.quest, next, a.issued + 1, a.bypasses))
                  [] OTHER -> EmptyBag)
    /\ UNCHANGED <<questVars, cacheVars, lifeVars>>

NextAccept ==
    \/ AcceptPass
    \/ ToggleAccepting
    \/ ToggleAcceptSolving
    \/ \E a \in BagToSet(accepts) : AcceptResolves(a)
    \/ \E a \in BagToSet(accepts), challenge \in BOOLEAN : AcceptRejects(a, challenge)

SpecAccept == InitAccept /\ [][NextAccept /\ UNCHANGED <<detectVars, claimLog, pureVars, envVars>>]_vars

\* The local tracking state of the orchestrator.
tracking == <<completableQuests, completingQuest, fakeGames, fakeApplications, handlers,
              claimingQuest, claims>>

\* The activations have at most two accept calls and one bypass behind them,
\* and a second call only with the bypass behind them.
AtMostTwoCalls(as) ==
    \A a \in BagToSet(as) :
        /\ a.issued <= 2
        /\ a.bypasses <= 1
        /\ a.issued = 2 <=> a.pc = "retry"
        /\ a.issued = 2 => a.bypasses = 1

\* C15: an acceptQuest activation never has more than two accept calls and one
\* bypass behind it; the second accept call of an activation is issued exactly when its
\* bypass returned success, and the bypass is begun exactly when its first call
\* failed with a challenge while automatic solving is on; every other failure,
\* a failed retry included, ends the activation; and no step of an activation
\* changes the tracking state or the quest's store fields, so a quest whose
\* accept failed is acceptable to the next pass as it was.
C15_AcceptRetriesOnce ==
    [][/\ AtMostTwoCalls(accepts')
       /\ \A a \in BagToSet(accepts), challenge \in BOOLEAN :
          AcceptRejects(a, challenge) =>
              /\ UNCHANGED <<tracking, phase, expired>>
              /\ Acceptable(phase', expired', a.quest) = Acceptable(phase, expired, a.quest)
              /\ IF a.pc = "call" /\ challenge /\ autoCaptchaSolving
                 THEN accepts' = (accepts (-) One(a)) (+) One(Accept(a.quest, "bypass", 1, 1))
                 ELSE IF a.pc = "bypass" /\ challenge
                 THEN accepts' = (accepts (-) One(a)) (+) One(Accept(a.quest, "retry", 2, 1))
                 ELSE accepts' = accepts (-) One(a)]_vars

\* An activation awaits its second accept call while another has just been
\* started for the same quest, still not enrolled, by a later pass.
C15_Witness ==
    /\ CopiesIn(Accept("q1", "retry", 2, 1), accepts) = 1
    /\ CopiesIn(Accept("q1", "call", 1, 0), accepts) = 1
    /\ phase["q1"] = "eligible"

\* The strings of each response of ClaimBodies that match the code pattern
\* after trimming and lie under a known field name, in an array or directly
\* in an object no deeper than the walk descends.
MatchingStrings ==
    <<{}, {Code1}, {}, {Code1, Code2}, {Code1}, {Code1}, {}, {}, {Code1}>>

Listed(list, code, questName, timestamp) ==
    \E k \in DOMAIN list : list[k] = Entry(code, questName, timestamp)

\* C24: the redeem-code list changes only in the step that ends a claim
\* procedure with a resolved call whose response holds a string matching the
\* code pattern within the depth walked; after that step every such string is
\* listed with the quest's name and the time of the step; a resolved call
\* without such a string, a failed call and every other step leave the list as
\* it was.
C24_CodesSavedOnlyOnSuccess ==
    [][/\ \A c \in BagToSet(claims), i \in DOMAIN ClaimBodies :
             ClaimResolvesWith(c, i) =>
                 IF MatchingStrings[i] = {} THEN redeemCodes' = redeemCodes
                 ELSE /\ \A code \in MatchingStrings[i] :
                            Listed(redeemCodes', code, c.quest, now)
                      /\ \A k \in DOMAIN redeemCodes' :
                            \/ \E j \in DOMAIN redeemCodes : redeemCodes[j] = redeemCodes'[k]
                            \/ /\ redeemCodes'[k].code \in MatchingStrings[i]
                               /\ redeemCodes'[k].quest = c.quest
                      /\ \A j \in DOMAIN redeemCodes :
                            \E k \in DOMAIN redeemCodes' : redeemCodes'[k] = redeemCodes[j]
       /\ redeemCodes' # redeemCodes =>
             \E c \in BagToSet(claims), i \in DOMAIN ClaimBodies :
                 ClaimResolvesWith(c, i) /\ MatchingStrings[i] # {}]_vars

\* The code of the nested response is listed for one quest, and both codes of
\* another response for the other quest, the padded one trimmed.
C24_Witness ==
    /\ claimLog = Report("q2", TRUE)
    /\ Len(redeemCodes) = 3
    /\ redeemCodes[1] = Entry(Code1, "q2", 0)
    /\ redeemCodes[2] = Entry(Code2, "q2", 0)
    /\ redeemCodes[3] = Entry(Code1, "q1", 0)

\* C33: the deduper holds a quest id exactly while a claim procedure for the
\* quest is in flight; a step in which the procedure ends, claimed or failed,
\* takes the id out; and a pass over a claimable quest with no claim in flight
\* issues a claim call for it, so a finished claim blocks no later one.
C33_DeduperWhileInFlight ==
    [][/\ \A q \in Quests : (q \in claimingQuest') <=> (ClaimsOf(claims', q) > 0)
       /\ claimLog'.quest # Null =>
             claimLog'.quest \notin claimingQuest' /\ claimLog'.quest \in claimingQuest
       /\ (Start \/ EmitChange \/ \E r \in Quests : Advance(r)) =>
             \A q \in Quests :
                 (/\ autoClaimRewards /\ listening'
                  /\ Claimable(phase', expired', q)
                  /\ q \notin claimingQuest)
                 => CopiesIn(Claim(q, "primary"), claims') = 1]_vars

\* A claim failed on both endpoints and the deduper is empty again; the quest
\* is still to be claimed.
C33_Witness ==
    /\ claimLog.quest # Null
    /\ ~claimLog.claimed
    /\ claimingQuest = {}
    /\ claims = EmptyBag
    /\ phase[claimLog.quest] = "completed"

\* -------------------------------------------------------- SpecCodes actions
\* The claim procedure with the clock running: the entries of the list carry
\* the time of the claim that saved them. One quest is still to be claimed.
InitCodes ==
    /\ CacheIdle
    /\ QuestsAt([q \in Quests |-> IF q = "q1" THEN "eligible" ELSE "claimed"],
                [q \in Quests |-> FALSE], TRUE, TRUE)
    /\ AuxIdle
    /\ EnvDefault

ClockRuns ==
    /\ TimePasses
    /\ claimLog' = NoReport
    /\ UNCHANGED redeemCodes

NextCodes ==
    \/ NextClaim
    \/ ClockRuns

SpecCodes == InitCodes /\ [][NextCodes /\ UNCHANGED <<detectVars, accepts, poll, categories, envVars>>]_vars

\* C23: no code text appears in more than one entry of the list, whenever and
\* for whichever quest it was returned, and an entry saved by a later claim
\* stands before every entry saved earlier.
C23_DedupByCodeNewestFirst ==
    \A j, k \in DOMAIN redeemCodes :
        /\ redeemCodes[j].code = redeemCodes[k].code => j = k
        /\ j < k => redeemCodes[j].at >= redeemCodes[k].at

\* No line appears twice, and an entry saved by a later claim stands before
\* every entry saved earlier.
NewestFirst ==
    \A j, k \in DOMAIN redeemCodes :
        /\ redeemCodes[j] = redeemCodes[k] => j = k
        /\ j < k => redeemCodes[j].at >= redeemCodes[k].at

\* -------------------------------------------------------- SpecPoll actions
\* One call of a submit-then-poll solver (solveWith2Captcha, solveWithCapSolver)
\* with a usable key: the task is submitted, then the result is polled.
\* for (let i = 0; i < 30; i++)
MaxPolls == 30
PollProviders == {"2Captcha", "CapSolver"}

\* What res.php of 2Captcha answers: status 1 with the token, or status 0 with
\* a reason in request.
TwoCaptchaReplies ==
    {[status |-> 1, request |-> "t1"],
     [status |-> 0, request |-> "CAPCHA_NOT_READY"],
     [status |-> 0, request |-> "ERROR_CAPTCHA_UNSOLVABLE"],
     [status |-> 0, request |-> "ERROR_WRONG_CAPTCHA_ID"]}

\* What getTaskResult of CapSolver answers: errorId 0 with a status (and the
\* solution when ready), or errorId 1 with an error code and no status.
CapSolverReplies ==
    {[errorId |-> 0, status |-> "ready", solution |-> "t1"],
     [errorId |-> 0, status |-> "idle", solution |-> Null],
     [errorId |-> 0, status |-> "processing", solution |-> Null],
     [errorId |-> 0, status |-> "failed", solution |-> Null],
     [errorId |-> 1, status |-> Null, solution |-> Null]}

InitPoll == InitCache

\* The solver is called and its submit request answered: accepted or refused.
Submit(provider, taken) ==
    /\ poll.pc = "idle"
    /\ poll' = IF taken
               THEN [provider |-> provider, pc |-> "polling", polls |-> 0, result |-> <<>>]
               ELSE [provider |-> provider, pc |-> "done", polls |-> 0,
                     result |-> <<SolverResult(FALSE, Null, "submit failed")>>]

\* The loop of a solver after the poll numbered polls + 1 was answered:
\* go on polling, or return.
Polled(res) ==
    IF res # <<>>
    THEN [poll EXCEPT !.pc = "done", !.polls = @ + 1, !.result = res]
    ELSE IF poll.polls + 1 < MaxPolls
    THEN [poll EXCEPT !.polls = @ + 1]
    ELSE [poll EXCEPT !.pc = "done", !.polls = @ + 1,
                      !.result = <<SolverResult(FALSE, Null, "Timeout waiting for solution")>>]

\* solveWith2Captcha: a poll is answered.
Poll2Captcha(reply) ==
    /\ poll.pc = "polling" /\ poll.provider = "2Captcha"
    /\ poll' = Polled(IF reply.status = 1 THEN <<SolverResult(TRUE, reply.request, "")>>
                      ELSE IF reply.request # "CAPCHA_NOT_READY"
                      THEN <<SolverResult(FALSE, Null, reply.request)>>
                      ELSE <<>>)

\* solveWithCapSolver: a poll is answered.
PollCapSolver(reply) ==
    /\ poll.pc = "polling" /\ poll.provider = "CapSolver"
    /\ poll' = Polled(IF reply.status = "ready"
                      THEN <<SolverResult(TRUE, reply.solution, "")>>
                      ELSE IF reply.status = "failed"
                      THEN <<SolverResult(FALSE, Null, "Task failed")>>
                      ELSE <<>>)

\* A poll request rejects: the solver's catch returns the failure.
PollThrows ==
    /\ poll.pc = "polling"
    /\ poll' = Polled(<<SolverResult(FALSE, Null, "error.message")>>)

\* The caller takes the result; the next call may begin.
PollReturns ==
    /\ poll.pc = "done"
    /\ poll' = PollIdle

NextPoll ==
    \/ \E provider \in PollProviders, taken \in BOOLEAN : Submit(provider, taken)
    \/ \E reply \in TwoCaptchaReplies : Poll2Captcha(reply)
    \/ \E reply \in CapSolverReplies : PollCapSolver(reply)
    \/ PollThrows
    \/ PollReturns

SpecPoll ==
    InitPoll /\ [][NextPoll /\ UNCHANGED <<cacheVars, questVars, lifeVars, detectVars, remoteVars,
                                           categories, redeemCodes, envVars>>]_vars

\* What a poll's answer reports: a solution, "not ready yet", or another
\* negative status.
Solved2Captcha(reply) == reply.status = 1
NotReady2Captcha(reply) == reply.status # 1 /\ reply.request = "CAPCHA_NOT_READY"
SolvedCapSolver(reply) == reply.status = "ready" /\ reply.solution # Null
NotReadyCapSolver(reply) == reply.errorId = 0 /\ reply.status \in {"idle", "processing"}

\* What the claim asks of the step that answers a poll.
PollAsClaimed(solved, notReady) ==
    /\ poll'.polls = poll.polls + 1
    /\ poll'.polls <= MaxPolls
    /\ IF solved THEN poll'.pc = "done" /\ poll'.result[1].success
       ELSE IF ~notReady THEN poll'.pc = "done" /\ ~poll'.result[1].success
       ELSE IF poll'.polls = MaxPolls THEN poll'.pc = "done" /\ ~poll'.result[1].success
       ELSE poll'.pc = "polling"

\* C28: a solver call makes at most MaxPolls polls; the poll that reports a
\* solution returns success, a poll that reports a negative status other than
\* "not ready yet" returns failure at once, and the last poll returns the
\* timeout failure if it too reports "not ready yet".
C28_PollsBoundedAndTerminal ==
    [][/\ \A reply \in TwoCaptchaReplies :
             Poll2Captcha(reply) =>
                 PollAsClaimed(Solved2Captcha(reply), NotReady2Captcha(reply))
       /\ \A reply \in CapSolverReplies :
             PollCapSolver(reply) =>
                 PollAsClaimed(SolvedCapSolver(reply), NotReadyCapSolver(reply))]_vars

\* The part of C28 the solvers meet: no call polls more than MaxPolls times,
\* and a call that is over has returned a result.
PollsBounded ==
    /\ poll.polls <= MaxPolls
    /\ poll.pc = "done" <=> poll.result # <<>>
    /\ poll.pc = "polling" => poll.polls < MaxPolls

\* ------------------------------------------------------ SpecReward actions
\* getQuestRewardCategories applied to the rewards of a quest.
\* A reward's name and nameWithArticle as the store may hold them.
RewardNames ==
    {<<>>, <<"N", "i", "T", "r", "O">>, <<"N", "i", "t">>}
RewardArticles ==
    {<<>>, <<"r", "o">>, <<"a", "n", " ", "O", "r", "b">>,
     <<"a", " ">> \o <<"D">> \o Tail(Decoration)}
RewardValues ==
    {Reward(sku, orbs, name, article) :
        sku \in {"521846918637420545", "1000000000000000000"}, orbs \in {0, 700},
        name \in RewardNames, article \in RewardArticles}
    \ {Reward("521846918637420545", 700, name, article) :
           name \in RewardNames, article \in RewardArticles}
\* The longest rewards list
MaxRewards == 2
RewardLists == UNION {[1..n -> RewardValues] : n \in 0..MaxRewards}

InitReward ==
    /\ CacheIdle
    /\ QuestIdle
    /\ AuxIdle
    /\ taskKind = [q \in Quests |-> IF q = "q1" THEN "PLAY_ON_DESKTOP" ELSE "STREAM_ON_DESKTOP"]
    /\ isApp = TRUE
    /\ rewards \in [Quests -> RewardLists]
    /\ rewards["q2"] = <<>>
    /\ preferredRewardType = "any"
    /\ pids = [q \in Quests |-> IF q = "q1" THEN MinPid ELSE MinPid + 1]

Classify ==
    /\ ~categories.called
    /\ categories' = [called |-> TRUE, out |-> getQuestRewardCategories(rewards["q1"])]

NextReward == Classify

SpecReward ==
    InitReward /\ [][NextReward /\ UNCHANGED <<cacheVars, questVars, lifeVars, detectVars,
                                               remoteVars, poll, redeemCodes, envVars>>]_vars

\* The reward's name or its name with article holds the word, in any case.
Mentions(reward, word) ==
    \/ includes(toLowerCase(reward.name), word)
    \/ includes(toLowerCase(reward.nameWithArticle), word)
Some(list, P(_)) == \E i \in DOMAIN list : P(list[i])
IsNitro(reward) == reward.skuId \in NitroSkuIds \/ Mentions(reward, Nitro)
IsCurrency(reward) == reward.orbQuantity > 0 \/ Mentions(reward, Orb)
IsDecoration(reward) == Mentions(reward, Decoration)

\* C21: a quest without rewards classifies as exactly game_item; nitro is among
\* the categories exactly when a reward has a Nitro SKU or mentions "nitro",
\* currency exactly when a reward has orbs or mentions "orb", avatar_decoration
\* exactly when a reward mentions "decoration"; game_item is the classification
\* exactly when none of these holds, and then it is the only category.
C21_RewardCategories ==
    categories.called =>
        LET list == rewards["q1"]
            out == categories.out
        IN  /\ list = <<>> => out = {"game_item"}
            /\ "nitro" \in out <=> Some(list, IsNitro)
            /\ "currency" \in out <=> Some(list, IsCurrency)
            /\ "avatar_decoration" \in out <=> Some(list, IsDecoration)
            /\ "game_item" \in out <=>
                  ~(Some(list, IsNitro) \/ Some(list, IsCurrency) \/ Some(list, IsDecoration))
            /\ "game_item" \in out => out = {"game_item"}
            /\ out \subseteq {"nitro", "currency", "avatar_decoration", "game_item"}

\* A quest whose rewards mention Nitro in mixed case and a decoration, and
\* whose other reward is nameless, classifies as both and not as game_item.
C21_Witness ==
    /\ categories.called
    /\ Len(rewards["q1"]) = 2
    /\ rewards["q1"][1].name = <<"N", "i", "T", "r", "O">>
    /\ rewards["q1"][1].skuId = "1000000000000000000"
    /\ rewards["q1"][2].name = <<>>
    /\ rewards["q1"][2].skuId = "1000000000000000000"
    /\ rewards["q1"][2].nameWithArticle = <<>>
    /\ rewards["q1"][2].orbQuantity = 0
    /\ categories.out = {"nitro", "avatar_decoration"}

\* ------------------------------------------------------ SpecFilter actions
\* The orchestrator with a reward preference set and quests of several rewards.
NitroReward == Reward("521846918637420545", 0, <<>>, <<>>)
OrbReward == Reward("1000000000000000000", 700, <<>>, <<>>)
\* The preferences tried, each with the rewards of the first quest.
FilterCases ==
    {<<"any", <<NitroReward>>>>,
     <<"nitro", <<>>>>, <<"nitro", <<NitroReward>>>>,
     <<"currency", <<NitroReward>>>>, <<"game_item", <<>>>>,
     <<"avatar_decoration", <<OrbReward, NitroReward>>>>}
InitFilter ==
    /\ CacheIdle
    /\ QuestsAt([q \in Quests |-> "eligible"], [q \in Quests |-> FALSE], FALSE, TRUE)
    /\ AuxIdle
    /\ taskKind = [q \in Quests |-> IF q = "q1" THEN "PLAY_ON_DESKTOP" ELSE "STREAM_ON_DESKTOP"]
    /\ isApp = TRUE
    /\ \E case \in FilterCases :
          /\ preferredRewardType = case[1]
          /\ rewards = [q \in Quests |-> IF q = "q1" THEN case[2] ELSE <<OrbReward>>]
    /\ pids = [q \in Quests |-> IF q = "q1" THEN MinPid ELSE MinPid + 1]

NextFilter == NextQuest

SpecFilter == InitFilter /\ [][NextFilter /\ UNCHANGED auxVars]_vars

\* The quest's rewards fall into the category.
InCategory(list, category) ==
    CASE category = "nitro" -> Some(list, IsNitro)
      [] category = "currency" -> Some(list, IsCurrency)
      [] category = "avatar_decoration" -> Some(list, IsDecoration)
      [] category = "game_item" ->
            ~(Some(list, IsNitro) \/ Some(list, IsCurrency) \/ Some(list, IsDecoration))
      [] OTHER -> FALSE
AnyReward == preferredRewardType = "any"

\* C22: a pass does nothing for a quest whose reward categories do not hold
\* the configured preference: no accept call, no handler, no claim, and its
\* tracker entry stays as it is; with the preference 'any' a
\* quest in a phase the pass acts on is acted on whatever its rewards; and a
\* pass that follows no change of the store leaves the quests' store fields
\* and rewards as they are.
C22_FilterBeforePhases ==
    [][Pass =>
        /\ \A q \in Quests :
              ~(AnyReward \/ InCategory(rewards[q], preferredRewardType)) =>
                  /\ q \notin accepted'
                  /\ Untouched(q)
        /\ AnyReward =>
              \A q \in Quests :
                  /\ (phase'[q] = "eligible" /\ ~expired'[q]) => q \in accepted'
                  /\ (phase'[q] = "enrolled" /\ ~expired'[q] /\ q \notin DOMAIN completingQuest)
                        => Live(handlers', q) > Live(handlers, q)
                  /\ (phase'[q] = "completed" /\ ~expired'[q]) => q \in claimingQuest'
        /\ (Start \/ EmitChange) => UNCHANGED <<phase, expired, rewards, taskKind>>]_vars

\* With the preference currency, a pass left the enrolled Nitro quest alone
\* and dispatched a handler for the quest that grants orbs.
C22_Witness ==
    /\ listening
    /\ preferredRewardType = "currency"
    /\ rewards["q1"] = <<NitroReward>>
    /\ phase["q1"] = "enrolled" /\ ~expired["q1"]
    /\ "q1" \notin DOMAIN completingQuest /\ Live(handlers, "q1") = 0
    /\ Active(completingQuest, "q2") /\ Live(handlers, "q2") > 0

\* ------------------------------------------------------- SpecKinds actions
\* The orchestrator with quests of several task kinds, in the desktop app and
\* in the browser: isApp and the task kind of each quest.
KindCases ==
    {<<TRUE, Null, "STREAM_ON_DESKTOP">>, <<TRUE, "WATCH_VIDEO", "PLAY_ON_DESKTOP">>,
     <<FALSE, "PLAY_ON_DESKTOP", "WATCH_VIDEO_ON_MOBILE">>,
     <<FALSE, Null, "STREAM_ON_DESKTOP">>}
InitKinds ==
    /\ CacheIdle
    /\ QuestsAt([q \in Quests |-> "eligible"], [q \in Quests |-> FALSE], FALSE, TRUE)
    /\ AuxIdle
    /\ \E case \in KindCases :
          /\ isApp = case[1]
          /\ taskKind = [q \in Quests |-> IF q = "q1" THEN case[2] ELSE case[3]]
    /\ rewards = [q \in Quests |-> <<>>]
    /\ preferredRewardType = "any"
    /\ pids = [q \in Quests |-> IF q = "q1" THEN MinPid ELSE MinPid + 1]

NextKinds == NextQuest

SpecKinds == InitKinds /\ [][NextKinds /\ UNCHANGED auxVars]_vars

\* C26: when a pass comes to an in-progress quest that is not in the tracker
\* and whose task kind has no matching handler (it is none of the recognized
\* kinds, or no handler supports it), no handler is subscribed and the
\* quest's tracker entry is marked stopped.
C26_NoHandlerMarksStopped ==
    [][Pass =>
        \A q \in Quests :
            (/\ Completable(phase', expired', q)
             /\ q \notin DOMAIN completingQuest
             /\ TaskName(q) \notin SupportedTasks)
            => /\ Live(handlers', q) = Live(handlers, q)
               /\ StopRequested(completingQuest', q)]_vars

\* No handler is subscribed for such a quest, and a recognized kind that no
\* handler supports is marked stopped when the desktop check lets it through.
NoHandlerNoSubscription ==
    [][Pass =>
        \A q \in Quests :
            (/\ Completable(phase', expired', q)
             /\ q \notin DOMAIN completingQuest
             /\ TaskName(q) \notin SupportedTasks)
            => /\ Live(handlers', q) = Live(handlers, q)
               /\ (TaskName(q) \in VideoTasks \/ (isApp /\ TaskName(q) \in RecognizedTasks))
                     => StopRequested(completingQuest', q)
               /\ (TaskName(q) \notin RecognizedTasks \/ (~isApp /\ TaskName(q) \notin VideoTasks))
                     => q \notin DOMAIN completingQuest']_vars

\* ------------------------------------------------------ SpecStamps actions
\* The orchestrator over a store whose quest holds any combination of the
\* three timestamps; the other quest is claimed already.
InitStamps ==
    /\ CacheIdle
    /\ \E ph \in Phases \cup Unordered :
          QuestsAt([q \in Quests |-> IF q = "q1" THEN ph ELSE "claimed"],
                   [q \in Quests |-> FALSE], FALSE, TRUE)
    /\ AuxIdle
    /\ EnvDefault

NextStamps == NextQuest

SpecStamps == InitStamps /\ [][NextStamps /\ UNCHANGED auxVars]_vars

\* The lists of the pass the quest is in.
ListsOf(ph, ex, q) ==
    (IF Acceptable(ph, ex, q) THEN {"acceptable"} ELSE {})
    \cup (IF Completable(ph, ex, q) THEN {"completable"} ELSE {})
    \cup (IF Claimable(ph, ex, q) THEN {"claimable"} ELSE {})

\* C30: whatever combination of enrollment, completion and claim timestamps
\* the store holds, a pass issues no accept call for a quest whose completion
\* timestamp is present, and puts no quest in more than one of its lists of
\* eligible, in-progress and awaiting-claim quests.
C30_PhasesOnlyForward ==
    [][Pass =>
        \A q \in Quests :
            /\ q \in accepted' => ~completedAt(phase'[q])
            /\ Cardinality(ListsOf(phase', expired', q)) <= 1]_vars

\* A quest the pass takes for in progress is in no other list and gets no
\* accept call and no claim.
InProgressApart ==
    [][Pass =>
        \A q \in Quests :
            Completable(phase', expired', q) =>
                /\ ListsOf(phase', expired', q) = {"completable"}
                /\ q \notin accepted'
                /\ ClaimsOf(claims', q) = ClaimsOf(claims, q)]_vars

\* ---------------------------------------------------- SpecPresence actions
\* The orchestrator with two quests of the same kind, so that a registry holds
\* two entries, with equal and with different pids; accepting and claiming
\* are switched off. Each case: the kind of both quests and the second pid.
PresenceCases ==
    {<<"STREAM_ON_DESKTOP", MinPid + 1>>, <<"PLAY_ON_DESKTOP", MinPid + 1>>,
     <<"PLAY_ON_DESKTOP", MinPid>>}
InitPresence ==
    /\ CacheIdle
    /\ QuestsAt([q \in Quests |-> "eligible"], [q \in Quests |-> FALSE], FALSE, FALSE)
    /\ AuxIdle
    /\ \E case \in PresenceCases :
          /\ taskKind = [q \in Quests |-> case[1]]
          /\ pids = [q \in Quests |-> IF q = "q1" THEN MinPid ELSE case[2]]
    /\ isApp = TRUE
    /\ rewards = [q \in Quests |-> <<>>]
    /\ preferredRewardType = "any"

NextPresence ==
    \/ Start
    \/ Stop
    \/ \E q \in Quests : Advance(q)
    \/ \E q \in Quests : Expire(q)
    \/ EmitChange
    \/ \E q \in Quests, v \in ProgressValues : Event(q, v)
    \/ \E q \in Quests, ok \in BOOLEAN : FetchDone(q, ok)

SpecPresence == InitPresence /\ [][NextPresence /\ UNCHANGED auxVars]_vars

\* What the rest of the system sees of a registered entry.
Shown(entry) == [id |-> entry.id, pid |-> entry.pid]
\* The quest whose entry of the registry was registered first among these.
Earliest(map, qs) == CHOOSE q \in qs : \A r \in qs : map[q].rank <= map[r].rank
InList(list, entry) == \E i \in DOMAIN list : list[i] = entry
AnyPid == {MinPid, MinPid + 1}

\* The accessors return nothing for an empty registry.
EmptyRegistryHidden ==
    /\ DOMAIN fakeGames = {} =>
          /\ getRunningGames(fakeGames) = <<>>
          /\ \A pid \in AnyPid : getGameForPID(fakeGames, pid) = <<>>
    /\ DOMAIN fakeApplications = {} =>
          getStreamerActiveStreamMetadata(fakeApplications) = <<>>

\* C27 as stated: every registered entry is visible through the accessors of
\* its registry (each game in getRunningGames and under its pid in
\* getGameForPID, each application in getStreamerActiveStreamMetadata), and
\* the accessors return nothing for an empty registry.
C27_EveryEntryVisible ==
    /\ \A q \in DOMAIN fakeGames :
          /\ InList(getRunningGames(fakeGames)[1], Shown(fakeGames[q]))
          /\ getGameForPID(fakeGames, fakeGames[q].pid) = <<Shown(fakeGames[q])>>
    /\ \A q \in DOMAIN fakeApplications :
          getStreamerActiveStreamMetadata(fakeApplications) = <<Shown(fakeApplications[q])>>
    /\ EmptyRegistryHidden

\* C27: getRunningGames returns every registered game, each once;
\* getGameForPID returns, for the pid of a registered game, the game registered
\* first among those with that pid; getStreamerActiveStreamMetadata returns the
\* application registered first among those still registered; and the
\* accessors return nothing for an empty registry.
C27_RegisteredEntriesVisible ==
    /\ DOMAIN fakeGames # {} =>
          /\ Len(getRunningGames(fakeGames)[1]) = Cardinality(DOMAIN fakeGames)
          /\ \A q \in DOMAIN fakeGames :
                /\ InList(getRunningGames(fakeGames)[1], Shown(fakeGames[q]))
                /\ getGameForPID(fakeGames, fakeGames[q].pid) =
                      <<Shown(fakeGames[Earliest(fakeGames,
                            {r \in DOMAIN fakeGames : fakeGames[r].pid = fakeGames[q].pid})])>>
    /\ DOMAIN fakeApplications # {} =>
          getStreamerActiveStreamMetadata(fakeApplications) =
              <<Shown(fakeApplications[Earliest(fakeApplications, DOMAIN fakeApplications)])>>
    /\ EmptyRegistryHidden

\* An event completed one quest and removed its application; the other
\* quest's application is still registered and is the one shown.
C27_Witness ==
    /\ completed = One("q1")
    /\ DOMAIN fakeApplications = {"q2"}
    /\ taskKind["q1"] = "STREAM_ON_DESKTOP"
    /\ getStreamerActiveStreamMetadata(fakeApplications) = <<[id |-> "q2", pid |-> MinPid + 1]>>

\* ------------------------------------------------------ SpecCancel actions
\* One quest with a handler, the other claimed already; accepting and
\* claiming are switched off. Progress events of a quest keep being delivered
\* while a callback is subscribed for it; nothing promises that their progress
\* ever meets the target.
InitCancel ==
    /\ CacheIdle
    /\ QuestsAt([q \in Quests |-> IF q = "q1" THEN "eligible" ELSE "claimed"],
                [q \in Quests |-> FALSE], FALSE, FALSE)
    /\ AuxIdle
    /\ taskKind \in [Quests -> {"PLAY_ON_DESKTOP", "STREAM_ON_DESKTOP"}]
    /\ taskKind["q2"] = "STREAM_ON_DESKTOP"
    /\ isApp = TRUE
    /\ rewards = [q \in Quests |-> <<>>]
    /\ preferredRewardType = "any"
    /\ pids = [q \in Quests |-> IF q = "q1" THEN MinPid ELSE MinPid + 1]

NextCancel == NextPresence

EventsDelivered ==
    \A q \in Quests :
        WF_vars((\E v \in ProgressValues : ~Reached(q, v) /\ Event(q, v))
                    /\ UNCHANGED auxVars)

SpecCancel ==
    InitCancel /\ [][NextCancel /\ UNCHANGED auxVars]_vars /\ EventsDelivered

Registered(q) == q \in DOMAIN fakeGames \cup DOMAIN fakeApplications

\* C32: once a quest's tracker entry is stop-requested while a handler of the
\* quest is subscribed, and events of the quest keep being delivered, the
\* quest's handlers are eventually unsubscribed, its presence entry is gone
\* and its tracker entry is stop-requested.
C32_StopRequestLeadsToTeardown ==
    \A q \in Quests :
        (StopRequested(completingQuest, q) /\ Subscribed(handlers, q) > 0)
            ~> (Subscribed(handlers, q) = 0 /\ ~Registered(q)
                /\ StopRequested(completingQuest, q))

\* An event that finds the quest's entry stop-requested or removed unsubscribes
\* every callback of the quest, removes its presence entry and leaves the entry
\* stop-requested; and a callback is unsubscribed by an event of its quest only.
NextEventTearsDown ==
    [][\A q \in Quests :
          /\ ((\E v \in ProgressValues : Event(q, v)) /\ ~Active(completingQuest, q)) =>
                /\ Subscribed(handlers', q) = 0
                /\ ~Registered(q)'
                /\ StopRequested(completingQuest', q)
          /\ Subscribed(handlers', q) < Subscribed(handlers, q) =>
                \E v \in ProgressValues : Event(q, v)]_vars

\* ----------------------------------------------------- SpecMonitor actions
\* The host calls start() and stop() in any order: start() may run again while
\* the plugin is already started. MaxMonitors bounds the observers created.
MaxMonitors == 2

InitMonitor == InitCache

\* start() called while the plugin is started: the same body as Start. Adding
\* the change listener again leaves it registered.
Restart ==
    /\ listening
    /\ Cardinality(observers) < MaxMonitors
    /\ listening' = TRUE
    /\ updateQuests(phase, expired)
    /\ enableCaptchaBypass
    /\ startTokenCacheCleanup
    /\ setupCaptchaMonitor
    /\ IdleCache
    /\ Settings
    /\ UNCHANGED <<phase, expired>>

NextMonitor ==
    \/ Start
    \/ Restart
    \/ Stop
    \/ ToggleSolving
    \/ \E sitekey \in SiteKeys, token \in Tokens : CacheFills(sitekey, token)
    \/ TimePasses

SpecMonitor == InitMonitor /\ [][NextMonitor /\ UNCHANGED auxVars]_vars

\* C35: after every stop(), whatever calls of start() and stop() came before
\* it, no observer created by setupCaptchaMonitor is observing the document.
C35_StopDisconnectsEveryMonitor ==
    [][Stop => observers' = {}]_vars

\* The observer start() kept last is always disconnected by stop(), and the
\* kept reference is cleared.
StopDisconnectsKeptMonitor ==
    [][Stop => captchaMonitor \notin observers' /\ captchaMonitor' = NoObserver]_vars

\* ------------------------------------------------------- SpecDrain actions
\* start() and stop() while challenge resolutions run: a resolution begins
\* only while the plugin is started (the monitor while its observer observes,
\* the request callers while the change listener is registered), and its
\* awaited provider or fallback returns whenever it returns.
InitDrain ==
    /\ InitBypass
    /\ servicePreference = "auto"
    /\ apiKeys.capsolver = ""
    /\ apiKeys.twoCaptcha = ""

MonitorResolves == observers # {} /\ MonitorBypass /\ UNCHANGED <<questVars, lifeVars>>
RequestResolves == listening /\ BareBypass /\ UNCHANGED <<questVars, lifeVars>>
SolverReturns == (ProviderReturns \/ FallbackReturns) /\ UNCHANGED <<questVars, lifeVars>>

NextDrain ==
    \/ Start
    \/ Stop
    \/ MonitorResolves
    \/ RequestResolves
    \/ SolverReturns

SpecDrain == InitDrain /\ [][NextDrain /\ UNCHANGED auxVars]_vars

\* C36: while the plugin is stopped the token cache is empty: no resolution
\* that was in flight when stop() cleared the cache stores a token afterwards.
C36_CacheEmptyWhileStopped == ~listening => DOMAIN tokenCache = {}

\* While the plugin is stopped no resolution begins, and the cache changes
\* only when the solver awaited by a resolution in flight returns a token.
StoppedCacheFilledByReturn ==
    [][(~listening /\ ~listening') =>
          /\ BagCardinality(calls') <= BagCardinality(calls)
          /\ tokenCache' # tokenCache =>
                \E c \in InFlight : tokenCache' = cacheToken(tokenCache, c.sitekey, result'.token, now)]_vars

====
